---- MODULE Spec2Model ----
(***************************************************************************)
(* trader-quickstart.                                                      *)
(*                                                                         *)
(* Spec: the staking reconciler, scripts/staking.py (main,                 *)
(* _try_stake_service, _try_unstake_service, _check_unstaking_availability)*)
(* with the helpers of scripts/utils.py and the program catalog of         *)
(* scripts/choose_staking.py.  The staking contract and the service        *)
(* registry are the environment: their view surface is read through the    *)
(* wrappers of utils.py, their write surface acts when a transaction is    *)
(* mined.  View calls are taken to answer; a submit call may succeed, be   *)
(* mined with a failed receipt, or raise.                                  *)
(*                                                                         *)
(* SpecSubmit, FairSubmit: one call of send_tx of scripts/utils.py, step   *)
(* by step.  SpecWrite: Spec together with a run of                        *)
(* scripts/claim_staking_rewards.py.  SpecMirror: the calls of             *)
(* _update_mech_events_db of scripts/mech_events.py.                       *)
(***************************************************************************)
EXTENDS Integers, Sequences, FiniteSets, TLC

\* ------------------------------------------------------------------ bounds
MaxTime == 1            \* time.time() ranges over 0..MaxTime
MaxDuration == 1        \* minStakingDuration() ranges over 0..MaxDuration
MaxRewards == 1         \* availableRewards() ranges over 0..MaxRewards
MaxNumServices == 1     \* maxNumServices() of every staking contract
MaxRuns == 2            \* invocations of the script in a row
MaxRetries == 2         \* max_retries of a call of send_tx
Timeout == 3            \* timeout of a call of send_tx, in seconds
SleepSeconds == 2       \* sleep of a call of send_tx, in seconds
MaxLatency == 1         \* seconds an RPC call of send_tx may take
MaxEvents == 2          \* events of the sender the subgraph ever indexes
MaxSyncs == 2           \* calls of _update_mech_events_db in a row
MaxInputs == 2          \* answers given to one "Enter your choice" prompt
MaxTrades == 2          \* trades of the creator the subgraph returns
MaxAmount == 1          \* collateral and tokens of a trade are 0 or MaxAmount
MaxMechCalls == 1       \* Mech requests made for one question
MaxOperations == 4      \* runs of run_service.py and stop_service.py in a row

\* The paged trade query: the number of matching trades, the largest
\* creationTimestamp, and the page size (QUERY_BATCH_SIZE, 1000 in trades.py
\* line 51, made small so that a page boundary falls among few trades).
MaxMatching == 3
MaxTimestamp == 2
QUERY_BATCH_SIZE == 2

\* --------------------------------------------------------------- constants
ZERO_ADDRESS == "0x0000"
NO_STAKING_PROGRAM_ID == "no_staking"

\* getServiceStakingState values (packages ... StakingState)
UNSTAKED == 0
STAKED == 1
EVICTED == 2

\* exit code while the process is running
RUNNING == -1

\* The catalog of choose_staking.py, reduced to two active and two
\* deprecated entries, in the order of the dict literals.  The value of an
\* entry is the address string itself (type "str"), not a mapping.
STAKING_PROGRAMS ==
    << [key |-> NO_STAKING_PROGRAM_ID, type |-> "str", address |-> ZERO_ADDRESS],
       [key |-> "quickstart_beta_hobbyist", type |-> "str", address |-> "0x389B"] >>

DEPRECATED_STAKING_PROGRAMS ==
    << [key |-> "quickstart_alpha_everest", type |-> "str", address |-> "0x5add"],
       [key |-> "quickstart_alpha_coastal", type |-> "str", address |-> "0x43fB"] >>

\* CUSTOM_STAKING_ADDRESS of NO_STAKING_PROGRAM_ENV_VARIABLES: the arbitrary
\* contract a non-staking agent is configured with.
NO_STAKING_CUSTOM_STAKING_ADDRESS == "0x43fB"

\* The staking contracts on which the service may hold a stake.
Contracts == {"0x389B", "0x43fB"}

\* The token-side contract the approval transaction is sent to.
SERVICE_REGISTRY == "0x9338"

VARIABLES
    \* ---- chain (environment)
    serviceStakingState,   \* contract -> getServiceStakingState(service_id)
    availableRewards,      \* contract -> availableRewards()
    otherServiceIds,       \* contract -> number of other services in getServiceIds()
    minStakingDuration,    \* contract -> minStakingDuration()
    tsStart,               \* mapServiceInfo(service_id)[3] where the service is staked
    nextCheckpointTs,      \* getNextRewardCheckpointTimestamp() of the contract the service is staked on
    approved,              \* spender approved for the service NFT, or "none"
    now,                   \* time.time()
    \* ---- operator side
    staking_program,       \* STAKING_PROGRAM of the .env file
    unstake,               \* args.unstake
    attended,              \* ATTENDED of the operator's environment
    use_staking_key,       \* USE_STAKING is present in the .env file
    \* ---- the running script
    pc,                    \* position in main
    available_rewards,     \* local of main / _try_stake_service
    can_unstake,           \* local of main
    tx_queue,              \* the transactions the current for loop still has to send
    ret,                   \* where main continues after the for loop
    unstake_program,       \* local staking_program of _try_unstake_service
    prompted,              \* the input() calls this invocation has waited on
    txs,                   \* transactions handed to send_tx in this invocation
    reported,              \* the guard refusal printed in this invocation
    exit_code,             \* sys.exit code, RUNNING before
    \* ---- earlier invocations
    history,               \* one [txs, exit_code] per finished earlier invocation
    startState             \* serviceStakingState when this invocation started

chain == <<serviceStakingState, availableRewards, otherServiceIds,
           minStakingDuration, tsStart, nextCheckpointTs, approved>>
args == <<staking_program, unstake, attended>>
locals == <<available_rewards, can_unstake, tx_queue, ret>>
unstake_locals == <<unstake_program, prompted>>
staking_vars == <<chain, now, args, use_staking_key, pc, locals,
                  unstake_locals, txs, reported, exit_code, history,
                  startState>>

\* ---- one call of send_tx (utils.py lines 277-332)
VARIABLES
    timestamp,             \* datetime.now().timestamp()
    transaction_count,     \* eth.get_transaction_count(crypto.address)
    send_tx_pc,            \* position in send_tx
    tx_dict,               \* local tx_dict: [nonce, gas]
    retries,               \* local retries
    tx_digest,             \* local tx_digest, "None" or the digest of a sent tx_dict
    already_known,         \* local already_known
    deadline,              \* local deadline
    error,                 \* the exception the except clauses are looking at
    result,                \* what the call returned or raised
    attempts,              \* one record per iteration of the while loop
    raw_tx,                \* argument raw_tx of the call
    peer                   \* a call of send_tx by another process for the same signer

peer_vars == <<raw_tx, peer>>
send_tx_vars == <<timestamp, transaction_count, send_tx_pc, tx_dict, retries,
                  tx_digest, already_known, deadline, error, result, attempts,
                  peer_vars>>

\* ---- one run of claim_staking_rewards.py
VARIABLES
    claim_pc,              \* position in main / _claim_rewards
    claim_receipt,         \* tx_receipt of the claim transaction
    claim_printed,         \* what _claim_rewards printed about the receipt
    claim_exit_code,       \* exit code of the process, RUNNING before
    claim_chain_calls      \* the calls to the chain the run has made so far

claim_vars == <<claim_pc, claim_receipt, claim_printed, claim_exit_code,
                claim_chain_calls>>

\* ---- the event mirror (mech_events.py)
VARIABLES
    subgraph,              \* requestIds of the sender's events the subgraph has indexed
    file,                  \* mech_events.json: [exists, doc]
    old_files,             \* the documents of the mech_events.<time>.old.json files
    mech_pc,               \* position in _update_mech_events_db / _get_mech_events
    subgraph_data,         \* local: the events the query returned, in id order
    mech_events_data,      \* local: the document in memory
    position,              \* index of the for loop over subgraph_data
    last_write_time,       \* global last_write_time of the process
    mech_time,             \* time.time() of the process
    mech_warned,           \* a WARNING of the except clauses was printed in this call
    builds,                \* the events built so far: [sync, id, stored]
    syncs,                 \* calls of _update_mech_events_db started so far
    mech_error,            \* the exception that ended the try block of this call
    mech_returned,         \* the events _get_mech_events returned
    mech_parked            \* the locals of a second process running the script

mech_process == <<mech_pc, subgraph_data, mech_events_data, position,
                  last_write_time, mech_warned, mech_error, mech_returned>>
mech_vars == <<subgraph, file, old_files, mech_process, mech_time, builds,
               syncs, mech_parked>>

\* ---- program selection (choose_staking.py, _prompt_select_staking_program)
VARIABLES
    env_file_vars,         \* STAKING_PROGRAM of the .env file, "absent" without the key
    ATTENDED,              \* os.environ.get("ATTENDED"), "None" when unset
    select_pc,             \* position in _prompt_select_staking_program
    select_program_id,     \* local program_id, "None" for None
    index,                 \* index of the for loop over ids
    metadata,              \* local metadata: what the last lookup returned
    listed,                \* the entries printed so far: [name, description]
    inputs,                \* answers given to "Enter your choice"
    select_result          \* what the function returned or raised

select_vars == <<env_file_vars, ATTENDED, select_pc, select_program_id, index,
                 metadata, listed, inputs, select_result>>

\* ---- the statistics table (trades.py, parse_user and _compute_totals)
VARIABLES
    table_pc,              \* position in parse_user
    statistics_table,      \* statistics_table without its ROI row
    statistics_roi,        \* the ROI row of statistics_table, as fractions
    mech_statistics,       \* argument mech_statistics: title -> count, fees
    popped                 \* the titles popped from the copy _mech_statistics

table_vars == <<table_pc, statistics_table, statistics_roi, mech_statistics,
                popped>>

\* ---- the service on this machine (run_service.py, stop_service.py)
VARIABLES
    run_pc,                \* position in main of run_service.py
    stop_pc,               \* position in main of stop_service.py
    local_config_json,     \* OPERATE_HOME / "local_config.json" exists
    manager_json,          \* manager.json holds a service
    user_account,          \* operate.user_account is not None
    wallet,                \* the main wallet exists
    containers,            \* containers of the service are running
    operations             \* how the runs of the two scripts ended

service_vars == <<run_pc, stop_pc, local_config_json, manager_json,
                  user_account, wallet, containers, operations>>

\* ---- the paged trade query (trades.py, _query_omen_xdai_subgraph)
VARIABLES
    query_pc,              \* position in _query_omen_xdai_subgraph
    fpmmTrades,            \* the matching trades of the subgraph, oldest first
    creationTimestamp_gt,  \* the cursor of the next page
    grouped_results,       \* the trades received, grouped by market
    all_results            \* the trades returned

query_vars == <<query_pc, fpmmTrades, creationTimestamp_gt, grouped_results,
                all_results>>

tools_vars == <<select_vars, table_vars, service_vars, query_vars>>
others == <<send_tx_vars, claim_vars, mech_vars, tools_vars>>
vars == <<staking_vars, others>>

\* ------------------------------------------------------------ pure helpers

\* choose_staking.py: STAKING_PROGRAMS.get(program_id)
RECURSIVE Lookup(_, _)
Lookup(catalog, key) ==
    IF catalog = <<>> THEN "None"
    ELSE IF Head(catalog).key = key THEN Head(catalog).address
    ELSE Lookup(Tail(catalog), key)

\* choose_staking.py: CUSTOM_STAKING_ADDRESS of _get_staking_env_variables
CUSTOM_STAKING_ADDRESS(program_id) ==
    IF program_id = NO_STAKING_PROGRAM_ID
    THEN NO_STAKING_CUSTOM_STAKING_ADDRESS
    ELSE Lookup(STAKING_PROGRAMS, program_id)

\* args.staking_contract_address: the caller passes CUSTOM_STAKING_ADDRESS
staking_contract_address == CUSTOM_STAKING_ADDRESS(staking_program)

\* A staked-check that counts only an evicted service.
is_service_staked_evicted_only(service_staking_state) ==
    service_staking_state = 2

\* utils.py
is_service_staked(service_staking_state) ==
    service_staking_state = 1 \/ service_staking_state = 2

\* An evicted-check that is true of every staked service.
is_service_evicted_any(service_staking_state) ==
    service_staking_state = STAKED \/ service_staking_state = EVICTED

is_service_evicted(service_staking_state) ==
    service_staking_state = EVICTED

get_available_rewards(c) == availableRewards[c]

get_min_staking_duration(c) == minStakingDuration[c]

\* mapServiceInfo(service_id)[3]: zero where the service holds no stake
get_service_info_ts_start(c) ==
    IF serviceStakingState[c] # UNSTAKED THEN tsStart ELSE 0

\* getServiceIds() holds every service that is staked or evicted
get_service_ids_len(c) ==
    otherServiceIds[c] + (IF serviceStakingState[c] # UNSTAKED THEN 1 ELSE 0)

get_available_staking_slots(c) == MaxNumServices - get_service_ids_len(c)

\* A plan that puts the stake before the approval.
get_stake_txs_swapped(c) ==
    << [kind |-> "stake", to |-> c, contract |-> c],
       [kind |-> "approve", to |-> SERVICE_REGISTRY, contract |-> c] >>

get_stake_txs(c) ==
    << [kind |-> "approve", to |-> SERVICE_REGISTRY, contract |-> c],
       [kind |-> "stake", to |-> c, contract |-> c] >>

get_unstake_txs(c) ==
    << [kind |-> "unstake", to |-> c, contract |-> c] >>

\* A guard that also refuses at the very end of the minimum duration.
_check_unstaking_availability_le(t, ts_start, minimum_staking_duration, rewards) ==
    IF (t - ts_start) <= minimum_staking_duration /\ rewards > 0
    THEN FALSE
    ELSE TRUE

\* staking.py: the condition of _check_unstaking_availability
_check_unstaking_availability(t, ts_start, minimum_staking_duration, rewards) ==
    IF (t - ts_start) < minimum_staking_duration /\ rewards > 0
    THEN FALSE
    ELSE TRUE

\* A receipt check that lets every receipt pass.
ReceiptRaises_never(status) == FALSE

\* utils.py: send_tx_and_wait_for_receipt raises on receipt["status"] != 1
ReceiptRaises(status) == status # 1

\* ------------------------------------------------- the staking contracts
\* The write surface of the contracts, as the spec's section 6 and 4.4
\* describe it: a service is staked on one program at a time, the approval
\* is given by the holder of the service NFT, and an unstake is refused
\* before the minimum staking duration while rewards are available.
StakedNowhere == \A c \in Contracts : serviceStakingState[c] = UNSTAKED

ContractAccepts(tx) ==
    CASE tx.kind = "approve" -> StakedNowhere
      [] tx.kind = "stake" ->
            /\ tx.contract \in Contracts
            /\ StakedNowhere
            /\ approved = tx.contract
            /\ get_available_staking_slots(tx.contract) > 0
            /\ availableRewards[tx.contract] > 0
      [] tx.kind = "unstake" ->
            /\ tx.contract \in Contracts
            /\ serviceStakingState[tx.contract] # UNSTAKED
            /\ ~ ( (now - tsStart) < minStakingDuration[tx.contract]
                   /\ availableRewards[tx.contract] > 0 )

ContractApplies(tx) ==
    CASE tx.kind = "approve" ->
            /\ approved' = tx.contract
            /\ UNCHANGED <<serviceStakingState, tsStart>>
      [] tx.kind = "stake" ->
            /\ serviceStakingState' = [serviceStakingState EXCEPT ![tx.contract] = STAKED]
            /\ tsStart' = now
            /\ approved' = "none"
      [] tx.kind = "unstake" ->
            /\ serviceStakingState' = [serviceStakingState EXCEPT ![tx.contract] = UNSTAKED]
            /\ tsStart' = 0
            /\ approved' = approved

\* No other process calls send_tx.
NoPeer == [pc |-> "idle", raw_tx |-> "none", tx_dict |-> [nonce |-> 0, gas |-> 0]]

\* choose_staking.py: NO_STAKING_PROGRAM_METADATA, and the value of the
\* local metadata before the first lookup.
NO_STAKING_PROGRAM_METADATA ==
    [body |-> "mapping", name |-> "No staking",
     description |-> "Your Olas Predict agent will still actively participate"]
\* The float 0.0, and the outcome of a division by zero.
ZeroFloat == [num |-> 0, den |-> 1]
ZeroDivisionError == [num |-> 0, den |-> 0]

NoMetadata == [body |-> "none", name |-> "missing", description |-> "missing"]

\* The program selection is not run.
select_idle ==
    /\ env_file_vars = "absent"
    /\ ATTENDED = "None"
    /\ select_pc = "idle"
    /\ select_program_id = "None"
    /\ index = 1
    /\ metadata = NoMetadata
    /\ listed = <<>>
    /\ inputs = <<>>
    /\ select_result = "none"

\* trades.py lines 159-167.
MarketState ==
    {"OPEN", "PENDING", "FINALIZING", "ARBITRATING", "CLOSED", "UNKNOWN"}

\* trades.py line 208.
STATS_TABLE_COLS == MarketState \cup {"TOTAL"}

\* trades.py line 209; the amounts and the two counts the totals read.  The
\* rows of the redemption counts take no part in the totals and are left
\* out, the ROI row is statistics_roi.
STATS_TABLE_ROWS ==
    {"NUM_TRADES", "INVESTMENT", "FEES", "MECH_CALLS", "MECH_FEES",
     "EARNINGS", "NET_EARNINGS"}

\* The questions (market titles) the Mech was asked about, and the one of
\* them whose market the creator traded.
Titles == {"title_1", "title_2"}
TradedTitles == {"title_1"}

\* The fee of one Mech request, in the unit of the amounts
\* (mech_events.py line 148).
DEFAULT_MECH_FEE == 1

\* trades.py lines 683-685: every cell is 0, the TOTAL column included.
EmptyTable == [row \in STATS_TABLE_ROWS |-> [col \in STATS_TABLE_COLS |-> 0]]

NoRoi == [col \in STATS_TABLE_COLS |-> ZeroFloat]

\* get_mech_statistics, lines 848-849: count requests of a question cost
\* count times the fee of a request.
MechStatistics(count) == [count |-> count, fees |-> count * DEFAULT_MECH_FEE]

\* The table is not computed.
table_idle ==
    /\ table_pc = "idle"
    /\ statistics_table = EmptyTable
    /\ statistics_roi = NoRoi
    /\ mech_statistics = [t \in Titles |-> MechStatistics(0)]
    /\ popped = {}

\* A machine on which neither script has run.
service_idle ==
    /\ run_pc = "idle"
    /\ stop_pc = "idle"
    /\ local_config_json = FALSE
    /\ manager_json = FALSE
    /\ user_account = FALSE
    /\ wallet = FALSE
    /\ containers = FALSE
    /\ operations = <<>>

\* No trade query is followed.
query_idle ==
    /\ query_pc = "idle"
    /\ fpmmTrades = <<>>
    /\ creationTimestamp_gt = 0
    /\ grouped_results = <<>>
    /\ all_results = <<>>

tools_idle == select_idle /\ table_idle /\ service_idle /\ query_idle

\* No call of send_tx is followed step by step.
send_tx_idle ==
    /\ raw_tx = "none"
    /\ peer = NoPeer
    /\ timestamp = 0
    /\ transaction_count = 0
    /\ send_tx_pc = "idle"
    /\ tx_dict = [nonce |-> 0, gas |-> 0]
    /\ retries = 0
    /\ tx_digest = [nonce |-> -1, gas |-> -1]
    /\ already_known = FALSE
    /\ deadline = 0
    /\ error = "none"
    /\ result = "none"
    /\ attempts = <<>>

\* claim_staking_rewards.py is not run.
claim_idle ==
    /\ claim_pc = "idle"
    /\ claim_receipt = "none"
    /\ claim_printed = "none"
    /\ claim_exit_code = RUNNING
    /\ claim_chain_calls = <<>>

\* mech_events.py: MECH_EVENTS_DB_VERSION and the document that
\* _read_mech_events_data_from_file starts from when there is no usable file.
MECH_EVENTS_DB_VERSION == 3
MINIMUM_WRITE_FILE_DELAY == 20
NoEvents == [id \in {} |-> "empty"]
FreshDocument == [db_version |-> MECH_EVENTS_DB_VERSION, events |-> NoEvents]
NoFile == [exists |-> FALSE, torn |-> FALSE, doc |-> FreshDocument]

\* The file after open(MECH_EVENTS_JSON_PATH, "w") (line 181) and before
\* json.dump has written the whole document: empty or cut short.
TornFile == [exists |-> TRUE, torn |-> TRUE, doc |-> FreshDocument]

\* The locals of a process that is not running the script.
NoProcess ==
    [mech_pc |-> "idle", subgraph_data |-> <<>>,
     mech_events_data |-> FreshDocument, position |-> 1,
     last_write_time |-> 0, mech_warned |-> FALSE, mech_error |-> "none",
     mech_returned |-> NoEvents]

\* The event mirror is not run.
mech_idle ==
    /\ subgraph = {}
    /\ file = NoFile
    /\ old_files = <<>>
    /\ mech_pc = "idle"
    /\ subgraph_data = <<>>
    /\ mech_events_data = FreshDocument
    /\ position = 1
    /\ last_write_time = 0
    /\ mech_time = MINIMUM_WRITE_FILE_DELAY
    /\ mech_warned = FALSE
    /\ builds = {}
    /\ syncs = 0
    /\ mech_error = "none"
    /\ mech_returned = NoEvents
    /\ mech_parked = NoProcess

\* ------------------------------------------------------------------- Init
Init ==
    /\ serviceStakingState \in
          { f \in [Contracts -> {UNSTAKED, STAKED, EVICTED}] :
                Cardinality({c \in Contracts : f[c] # UNSTAKED}) <= 1 }
    /\ availableRewards \in [Contracts -> 0..MaxRewards]
    /\ otherServiceIds \in
          { f \in [Contracts -> 0..MaxNumServices] :
                \A c \in Contracts :
                    f[c] + (IF serviceStakingState[c] # UNSTAKED THEN 1 ELSE 0)
                        <= MaxNumServices }
    /\ minStakingDuration \in [Contracts -> 0..MaxDuration]
    /\ now \in 0..MaxTime
    /\ tsStart \in (IF \E c \in Contracts : serviceStakingState[c] # UNSTAKED
                    THEN 0..now ELSE {0})
    /\ nextCheckpointTs \in {0, MaxTime + 1}
    /\ approved = "none"
    /\ staking_program \in {STAKING_PROGRAMS[i].key : i \in DOMAIN STAKING_PROGRAMS}
    /\ unstake \in BOOLEAN
    /\ attended \in BOOLEAN
    /\ use_staking_key = TRUE
    /\ pc = "start"
    /\ available_rewards = 0
    /\ can_unstake = TRUE
    /\ tx_queue = <<>>
    /\ ret = "none"
    /\ unstake_program = "unset"
    /\ prompted = {}
    /\ txs = <<>>
    /\ reported = "none"
    /\ exit_code = RUNNING
    /\ history = <<>>
    /\ startState = serviceStakingState
    /\ send_tx_idle
    /\ claim_idle
    /\ mech_idle
    /\ tools_idle

\* ---------------------------------------------------------------- actions

\* sys.exit(code): SystemExit is not an Exception, the handler of main does
\* not catch it.
sys_exit(code) ==
    /\ pc' = "done"
    /\ exit_code' = code

\* main, lines 327-354: the first read of the rewards and the dispatch on
\* args.unstake.
main_start ==
    /\ pc = "start"
    /\ available_rewards' = get_available_rewards(staking_contract_address)
    /\ pc' = IF unstake THEN "try_unstake" ELSE "is_staked"
    /\ UNCHANGED <<chain, now, args, use_staking_key, can_unstake, tx_queue,
                   ret, txs, reported, exit_code, history, startState>>
    /\ UNCHANGED <<unstake_locals, others>>

\* dict operations of _try_unstake_service, lines 163-166
Remove(catalog, key) == SelectSeq(catalog, LAMBDA e : e.key # key)

all_staking_programs ==
    Remove(Remove(STAKING_PROGRAMS \o DEPRECATED_STAKING_PROGRAMS,
                  "no_staking"),
           "quickstart_alpha_everest")

\* data["deployment"]["stakingTokenInstanceAddress"], line 172: a str
\* subscripted with a str raises TypeError.
stakingTokenInstanceAddress(data) ==
    IF data.type = "dict" THEN data.address ELSE "TypeError"

StakingStateAt(address) ==
    IF address \in Contracts THEN serviceStakingState[address] ELSE UNSTAKED

\* The discovery loop, lines 169-180: every positive probe overwrites the
\* program found so far; the loop ends at the first lookup that raises, with
\* the local staking_program as the probes before it left it.
RECURSIVE Discover(_, _)
Discover(programs, found) ==
    IF programs = <<>> THEN found
    ELSE LET address == stakingTokenInstanceAddress(Head(programs)) IN
         IF address = "TypeError"
         THEN [program |-> found.program, address |-> "TypeError"]
         ELSE IF is_service_staked(StakingStateAt(address))
              THEN Discover(Tail(programs),
                            [program |-> Head(programs).key, address |-> address])
              ELSE Discover(Tail(programs), found)

\* utils.py get_next_checkpoint_ts
get_next_checkpoint_ts(address) == nextCheckpointTs

\* _try_unstake_service, lines 156-248, up to its for loop.  The two input()
\* calls (lines 198 and 230) wait for the operator whatever ATTENDED is.
_try_unstake_service ==
    /\ pc = "try_unstake"
    /\ LET found == Discover(all_staking_programs,
                             [program |-> "None", address |-> "None"]) IN
       /\ unstake_program' = found.program
       /\ IF found.address = "TypeError"
          THEN /\ pc' = "except"
               /\ UNCHANGED <<tx_queue, ret, reported, exit_code, prompted>>
          ELSE IF found.address = "None"
          THEN /\ sys_exit(0)
               /\ UNCHANGED <<tx_queue, ret, reported, prompted>>
          ELSE \E user_input \in {"yes", "no"} :
               LET next_ts == get_next_checkpoint_ts(found.address)
                   warned == prompted \cup
                       (IF is_service_evicted(StakingStateAt(found.address))
                        THEN {"press_enter"} ELSE {})
               IN
                 IF ~ _check_unstaking_availability(
                          now, get_service_info_ts_start(found.address),
                          get_min_staking_duration(found.address),
                          get_available_rewards(found.address))
                 THEN /\ reported' = "cannot_unstake"
                      /\ prompted' = warned
                      /\ sys_exit(1)
                      /\ UNCHANGED <<tx_queue, ret>>
                 ELSE IF now < next_ts /\ user_input \notin {"yes", "y"}
                 THEN /\ reported' = "user_refused"
                      /\ prompted' = warned \cup {"continue_unstaking"}
                      /\ sys_exit(1)
                      /\ UNCHANGED <<tx_queue, ret>>
                 ELSE /\ tx_queue' = get_unstake_txs(found.address)
                      /\ prompted' = warned \cup
                             (IF now < next_ts THEN {"continue_unstaking"} ELSE {})
                      /\ ret' = "exit0"
                      /\ pc' = "send"
                      /\ UNCHANGED <<reported, exit_code>>
    /\ UNCHANGED <<chain, now, args, use_staking_key, available_rewards,
                   can_unstake, txs, history, startState>>
    /\ UNCHANGED others

\* main, lines 356-371 and 397-428: the dispatch on the state of the service
\* on the target contract.
main_is_service_staked ==
    /\ pc = "is_staked"
    /\ LET c == staking_contract_address IN
       IF is_service_staked(serviceStakingState[c])
       THEN IF is_service_evicted(serviceStakingState[c])
            THEN /\ can_unstake' = _check_unstaking_availability(
                                       now, get_service_info_ts_start(c),
                                       get_min_staking_duration(c),
                                       get_available_rewards(c))
                 /\ pc' = "can_unstake"
                 /\ UNCHANGED <<available_rewards, exit_code>>
            ELSE /\ available_rewards' = get_available_rewards(c)
                 /\ IF available_rewards' = 0
                    THEN pc' = "try_unstake" /\ UNCHANGED exit_code
                    ELSE sys_exit(0)
                 /\ UNCHANGED can_unstake
       ELSE /\ pc' = "try_stake"
            /\ UNCHANGED <<available_rewards, can_unstake, exit_code>>
    /\ UNCHANGED <<chain, now, args, use_staking_key, tx_queue, ret, txs,
                   reported, history, startState>>
    /\ UNCHANGED <<unstake_locals, others>>

\* main, lines 373-381: the refusal of the unstake of an evicted service,
\* or the unstake plan.
main_can_unstake ==
    /\ pc = "can_unstake"
    /\ IF ~ can_unstake
       THEN /\ reported' = "cannot_unstake"
            /\ sys_exit(1)
            /\ UNCHANGED <<tx_queue, ret>>
       ELSE /\ tx_queue' = get_unstake_txs(staking_contract_address)
            /\ ret' = "try_stake"
            /\ pc' = "send"
            /\ UNCHANGED <<reported, exit_code>>
    /\ UNCHANGED <<chain, now, args, use_staking_key, available_rewards,
                   can_unstake, txs, history, startState>>
    /\ UNCHANGED <<unstake_locals, others>>

\* A stake routine that reports the missing slot and stakes all the same.
StakeDecision_no_slots_stakes(slots, rewards) ==
    IF slots > 0
    THEN IF rewards = 0
         THEN [report |-> "no_rewards", stake |-> FALSE, code |-> 0]
         ELSE [report |-> "none", stake |-> TRUE, code |-> 0]
    ELSE [report |-> "no_slots", stake |-> TRUE, code |-> 1]

\* A stake routine that ends with exit code 0 when no slot is free.
StakeDecision_no_slots_exit0(slots, rewards) ==
    IF slots > 0
    THEN IF rewards = 0
         THEN [report |-> "no_rewards", stake |-> FALSE, code |-> 0]
         ELSE [report |-> "none", stake |-> TRUE, code |-> 0]
    ELSE [report |-> "no_slots", stake |-> FALSE, code |-> 0]

\* The branches of _try_stake_service, lines 259-288: what is printed,
\* whether the plan is sent, and the exit code of a branch that ends the
\* process at once.
StakeDecision(slots, rewards) ==
    IF slots > 0
    THEN IF rewards = 0
         THEN [report |-> "no_rewards", stake |-> FALSE, code |-> 0]
         ELSE [report |-> "none", stake |-> TRUE, code |-> 0]
    ELSE [report |-> "no_slots", stake |-> FALSE, code |-> 1]

\* _try_stake_service, lines 251-288, up to its for loop.
_try_stake_service ==
    /\ pc = "try_stake"
    /\ LET c == staking_contract_address
           slots == get_available_staking_slots(c)
           d == StakeDecision(slots, get_available_rewards(c)) IN
       /\ available_rewards' =
              (IF slots > 0 THEN get_available_rewards(c) ELSE available_rewards)
       /\ reported' = (IF d.report # "none" THEN d.report ELSE reported)
       /\ IF d.stake
          THEN /\ tx_queue' = get_stake_txs(c)
               /\ ret' = "exit0"
               /\ pc' = "send"
               /\ UNCHANGED exit_code
          ELSE /\ sys_exit(d.code)
               /\ UNCHANGED <<tx_queue, ret>>
    /\ UNCHANGED <<chain, now, args, use_staking_key, can_unstake, txs,
                   history, startState>>
    /\ UNCHANGED <<unstake_locals, others>>

\* for tx in ...: send_tx_and_wait_for_receipt(...), the call of send_tx
\* (utils.py line 341): the transaction is handed to the submit call.
send_tx ==
    /\ pc = "send"
    /\ tx_queue # <<>>
    /\ txs' = Append(txs, [kind |-> Head(tx_queue).kind,
                           to |-> Head(tx_queue).to,
                           contract |-> Head(tx_queue).contract,
                           receipt |-> "pending"])
    /\ pc' = "receipt"
    /\ UNCHANGED <<chain, now, args, use_staking_key, locals, reported,
                   exit_code, history, startState>>
    /\ UNCHANGED <<unstake_locals, others>>

\* The outcomes of a submit call: a receipt with status 1 when the contract
\* accepts the transaction, a receipt with status 0, or an error raised by
\* send_tx (RPCError, ChainInteractionError, ChainTimeoutError).
Outcomes(tx) ==
    (IF ContractAccepts(tx) THEN {"ok"} ELSE {}) \cup {"reverted", "error"}

ReceiptStatus(outcome) == IF outcome = "ok" THEN 1 ELSE 0

\* send_tx_and_wait_for_receipt, utils.py lines 341-344: the submit call
\* returns or raises, and the receipt status is checked.
wait_for_receipt ==
    /\ pc = "receipt"
    /\ \E outcome \in Outcomes(Head(tx_queue)) :
          /\ txs' = [txs EXCEPT ![Len(txs)].receipt = outcome]
          /\ IF outcome = "ok"
             THEN ContractApplies(Head(tx_queue))
             ELSE UNCHANGED <<serviceStakingState, tsStart, approved>>
          /\ IF outcome = "error" \/ ReceiptRaises(ReceiptStatus(outcome))
             THEN pc' = "except" /\ UNCHANGED tx_queue
             ELSE pc' = "send" /\ tx_queue' = Tail(tx_queue)
    /\ UNCHANGED <<availableRewards, otherServiceIds, minStakingDuration,
                   nextCheckpointTs, now, args, use_staking_key, available_rewards, can_unstake, ret,
                   reported, exit_code, history, startState>>
    /\ UNCHANGED <<unstake_locals, others>>

\* A loop end after which the process always exits.
for_loop_end_exits ==
    /\ pc = "send"
    /\ tx_queue = <<>>
    /\ sys_exit(0)
    /\ UNCHANGED <<chain, now, args, use_staking_key, locals, txs, reported,
                   history, startState>>
    /\ UNCHANGED <<unstake_locals, others>>

\* The end of a for loop over the plan: after the unstake of an evicted
\* service main goes on to _try_stake_service (lines 383-394); the other
\* loops are followed by sys.exit(0) (lines 248 and 282).
for_loop_end ==
    /\ pc = "send"
    /\ tx_queue = <<>>
    /\ IF ret = "try_stake"
       THEN pc' = "try_stake" /\ UNCHANGED exit_code
       ELSE sys_exit(0)
    /\ UNCHANGED <<chain, now, args, use_staking_key, locals, txs, reported,
                   history, startState>>
    /\ UNCHANGED <<unstake_locals, others>>

\* A handler that ends the process with exit code 0.
main_except_exit0 ==
    /\ pc = "except"
    /\ use_staking_key' = FALSE
    /\ sys_exit(0)
    /\ UNCHANGED <<chain, now, args, locals, txs, reported, history, startState>>
    /\ UNCHANGED <<unstake_locals, others>>

\* A handler that leaves the .env file as it is.
main_except_keeps_key ==
    /\ pc = "except"
    /\ sys_exit(1)
    /\ UNCHANGED <<chain, now, args, use_staking_key, locals, txs, reported,
                   history, startState>>
    /\ UNCHANGED <<unstake_locals, others>>

\* main, lines 430-437: the handler of every Exception.
main_except ==
    /\ pc = "except"
    /\ use_staking_key' = FALSE
    /\ sys_exit(1)
    /\ UNCHANGED <<chain, now, args, locals, txs, reported, history, startState>>
    /\ UNCHANGED <<unstake_locals, others>>

\* The operator runs the script again with the same arguments (lines
\* 440-441); the chain is as the previous invocation left it, the clock
\* may have advanced.
Reinvoke ==
    /\ pc = "done"
    /\ Len(history) + 1 < MaxRuns
    /\ history' = Append(history, [txs |-> txs, exit_code |-> exit_code])
    /\ now' \in now..MaxTime
    /\ pc' = "start"
    /\ available_rewards' = 0
    /\ can_unstake' = TRUE
    /\ tx_queue' = <<>>
    /\ ret' = "none"
    /\ unstake_program' = "unset"
    /\ prompted' = {}
    /\ txs' = <<>>
    /\ reported' = "none"
    /\ exit_code' = RUNNING
    /\ startState' = serviceStakingState
    /\ UNCHANGED <<chain, args, use_staking_key>>
    /\ UNCHANGED others

Next ==
    \/ main_start
    \/ _try_unstake_service
    \/ main_is_service_staked
    \/ main_can_unstake
    \/ _try_stake_service
    \/ send_tx
    \/ wait_for_receipt
    \/ for_loop_end
    \/ main_except
    \/ Reinvoke

Spec == Init /\ [][Next]_vars

TypeOK ==
    /\ serviceStakingState \in [Contracts -> {UNSTAKED, STAKED, EVICTED}]
    /\ availableRewards \in [Contracts -> 0..MaxRewards]
    /\ now \in 0..MaxTime
    /\ tsStart \in 0..MaxTime
    /\ approved \in Contracts \cup {"none"}
    /\ exit_code \in {RUNNING, 0, 1}
    /\ (exit_code = RUNNING) = (pc # "done")
    /\ Cardinality({c \in Contracts : serviceStakingState[c] # UNSTAKED}) <= 1

\* ========================================== send_tx, utils.py lines 277-332

\* The arguments of the call (lines 281-283).
max_retries == MaxRetries
timeout == Timeout
sleep == SleepSeconds

\* The exceptions the RPC calls of the try block raise, each named by the
\* marker its text carries: a requests ConnectionError, and errors of the
\* node with the markers that autonomy.chain.tx looks for (one marker per
\* text), or with none of them.
RequestsConnectionError == "RequestsConnectionError"

Errors ==
    {RequestsConnectionError, "AlreadyKnown", "FeeTooLow",
     "wrong transaction nonce", "execution reverted"}

\* autonomy.chain.tx: TxSettler._already_known, ERRORS_TO_RETRY with
\* should_retry, and should_reprice, as utils.py calls them on str(e).
_already_known(e) == e = "AlreadyKnown"
ERRORS_TO_RETRY == {"FeeTooLow", "wrong transaction nonce"}
should_retry(e) == e \in ERRORS_TO_RETRY
should_reprice(e) == e = "FeeTooLow"

\* tx_digest = None (line 299)
None == [nonce |-> -1, gas |-> -1]

\* The digest send_signed_transaction returns: the hash of the signed
\* transaction, one per content of tx_dict.
Digest(tx) == tx

\* A repricing that also takes the next nonce.
_repice_next_nonce(tx) == [tx EXCEPT !.gas = @ + 1, !.nonce = @ + 1]

\* tx_settler._repice(tx_dict): the gas parameters are computed anew.
_repice(tx) == [tx EXCEPT !.gas = @ + 1]

Attempt(t) ==
    [started |-> t, signed |-> FALSE, sent |-> None, polled |-> FALSE,
     polled_digest |-> None, error |-> "none", raised_by |-> "none",
     slept |-> FALSE]

\* A call that takes the nonce after the one a call of another process
\* holds.
send_tx_call_reserving ==
    /\ send_tx_pc = "call"
    /\ \E gas \in {0, 1} :
          tx_dict' = [nonce |-> transaction_count
                                  + (IF peer.pc \in {"sign", "sent"}
                                     THEN 1 ELSE 0),
                      gas |-> gas]
    /\ retries' = 0
    /\ tx_digest' = None
    /\ already_known' = FALSE
    /\ deadline' = timestamp + timeout
    /\ send_tx_pc' = "while"
    /\ UNCHANGED <<timestamp, transaction_count, error, result, attempts>>
    /\ UNCHANGED <<staking_vars, tools_vars, claim_vars, mech_vars, peer_vars>>

\* Lines 286-301: tx_dict is built with the nonce read once and the gas
\* parameters (GAS_PARAMS, or the pricing of the ledger), the locals are
\* initialised and the deadline is set.
send_tx_call ==
    /\ send_tx_pc = "call"
    /\ \E gas \in {0, 1} :
          tx_dict' = [nonce |-> transaction_count, gas |-> gas]
    /\ retries' = 0
    /\ tx_digest' = None
    /\ already_known' = FALSE
    /\ deadline' = timestamp + timeout
    /\ send_tx_pc' = "while"
    /\ UNCHANGED <<timestamp, transaction_count, error, result, attempts>>
    /\ UNCHANGED <<staking_vars, tools_vars, claim_vars, mech_vars, peer_vars>>

\* A loop head that admits one iteration more than max_retries.
send_tx_while_one_more ==
    /\ send_tx_pc = "while"
    /\ IF retries <= max_retries /\ deadline >= timestamp
       THEN /\ retries' = retries + 1
            /\ attempts' = Append(attempts, Attempt(timestamp))
            /\ send_tx_pc' = IF already_known THEN "poll" ELSE "sign"
            /\ UNCHANGED result
       ELSE /\ result' = "ChainTimeoutError"
            /\ send_tx_pc' = "raised"
            /\ UNCHANGED <<retries, attempts>>
    /\ UNCHANGED <<timestamp, transaction_count, tx_dict, tx_digest,
                   already_known, deadline, error>>
    /\ UNCHANGED <<staking_vars, tools_vars, claim_vars, mech_vars, peer_vars>>

\* Lines 302-305 and 332: the loop head, and the raise that follows the loop.
send_tx_while ==
    /\ send_tx_pc = "while"
    /\ IF retries < max_retries /\ deadline >= timestamp
       THEN /\ retries' = retries + 1
            /\ attempts' = Append(attempts, Attempt(timestamp))
            /\ send_tx_pc' = IF already_known THEN "poll" ELSE "sign"
            /\ UNCHANGED result
       ELSE /\ result' = "ChainTimeoutError"
            /\ send_tx_pc' = "raised"
            /\ UNCHANGED <<retries, attempts>>
    /\ UNCHANGED <<timestamp, transaction_count, tx_dict, tx_digest,
                   already_known, deadline, error>>
    /\ UNCHANGED <<staking_vars, tools_vars, claim_vars, mech_vars, peer_vars>>

\* Lines 306-310: sign tx_dict and send it; the node answers with the
\* digest or the call raises.
send_tx_sign_and_send ==
    /\ send_tx_pc = "sign"
    /\ \E d \in 0..MaxLatency : timestamp' = timestamp + d
    /\ \/ /\ tx_digest' = Digest(tx_dict)
          /\ attempts' = [attempts EXCEPT ![Len(attempts)] =
                 [@ EXCEPT !.signed = TRUE, !.sent = tx_dict]]
          /\ send_tx_pc' = "poll"
          /\ UNCHANGED error
       \/ \E e \in Errors :
          /\ error' = e
          /\ attempts' = [attempts EXCEPT ![Len(attempts)] =
                 [@ EXCEPT !.signed = TRUE, !.sent = tx_dict, !.error = e,
                           !.raised_by = "send"]]
          /\ send_tx_pc' = "except"
          /\ UNCHANGED tx_digest
    /\ UNCHANGED <<transaction_count, tx_dict, retries, already_known,
                   deadline, result>>
    /\ UNCHANGED <<staking_vars, tools_vars, claim_vars, mech_vars, peer_vars>>

\* eth.get_transaction_count(address) once a transaction of the signer has
\* been mined: the count is past the nonce of every mined transaction.
Mined(tx) ==
    IF tx.nonce >= transaction_count THEN tx.nonce + 1 ELSE transaction_count

\* Lines 311-315: get_transaction_receipt(tx_digest) returns a receipt (the
\* transaction has been mined), returns None or raises; with
\* tx_digest = None it can only raise.
send_tx_poll ==
    /\ send_tx_pc = "poll"
    /\ \E d \in 0..MaxLatency : timestamp' = timestamp + d
    /\ \/ /\ tx_digest # None
          /\ \E receipt \in {"receipt_status_1", "receipt_status_0"} :
                result' = receipt
          /\ attempts' = [attempts EXCEPT ![Len(attempts)] =
                 [@ EXCEPT !.polled = TRUE, !.polled_digest = tx_digest]]
          /\ send_tx_pc' = "returned"
          /\ transaction_count' = Mined(tx_digest)
          /\ UNCHANGED error
       \/ /\ tx_digest # None
          /\ attempts' = [attempts EXCEPT ![Len(attempts)] =
                 [@ EXCEPT !.polled = TRUE, !.polled_digest = tx_digest]]
          /\ send_tx_pc' = "while"
          /\ UNCHANGED <<error, result, transaction_count>>
       \/ \E e \in Errors :
          /\ error' = e
          /\ attempts' = [attempts EXCEPT ![Len(attempts)] =
                 [@ EXCEPT !.polled = TRUE, !.polled_digest = tx_digest,
                           !.error = e, !.raised_by = "poll"]]
          /\ send_tx_pc' = "except"
          /\ UNCHANGED <<result, transaction_count>>
    /\ UNCHANGED <<tx_dict, retries, tx_digest, already_known, deadline>>
    /\ UNCHANGED <<staking_vars, tools_vars, claim_vars, mech_vars, peer_vars>>

\* Except clauses that retry an error to reprice as it is, after a sleep.
Handle_reprice_sleeps(e) ==
    IF e = RequestsConnectionError THEN "RPCError"
    ELSE IF _already_known(e) THEN "already_known"
    ELSE IF ~ should_retry(e) THEN "ChainInteractionError"
    ELSE "sleep"

\* Except clauses that treat a connection error as any retried error.
Handle_connection_sleeps(e) ==
    IF e = RequestsConnectionError THEN "sleep"
    ELSE IF _already_known(e) THEN "already_known"
    ELSE IF ~ should_retry(e) THEN "ChainInteractionError"
    ELSE IF should_reprice(e) THEN "reprice"
    ELSE "sleep"

\* What the except clauses of lines 316-331 do with an exception: raise,
\* note that the transaction is already known, reprice, or sleep.
Handle(e) ==
    IF e = RequestsConnectionError THEN "RPCError"
    ELSE IF _already_known(e) THEN "already_known"
    ELSE IF ~ should_retry(e) THEN "ChainInteractionError"
    ELSE IF should_reprice(e) THEN "reprice"
    ELSE "sleep"

\* Lines 316-331.
send_tx_except ==
    /\ send_tx_pc = "except"
    /\ LET h == Handle(error) IN
       /\ result' = IF h \in {"RPCError", "ChainInteractionError"}
                    THEN h ELSE result
       /\ send_tx_pc' = IF h \in {"RPCError", "ChainInteractionError"}
                        THEN "raised" ELSE "while"
       /\ already_known' = (already_known \/ h = "already_known")
       /\ tx_dict' = IF h = "reprice" THEN _repice(tx_dict) ELSE tx_dict
       /\ timestamp' = IF h = "sleep" THEN timestamp + sleep ELSE timestamp
       /\ attempts' = [attempts EXCEPT ![Len(attempts)].slept = (h = "sleep")]
    /\ UNCHANGED <<transaction_count, retries, tx_digest, deadline, error>>
    /\ UNCHANGED <<staking_vars, tools_vars, claim_vars, mech_vars, peer_vars>>

\* No invocation of staking.py is followed.
staking_idle ==
    /\ serviceStakingState = [c \in Contracts |-> UNSTAKED]
    /\ availableRewards = [c \in Contracts |-> 0]
    /\ otherServiceIds = [c \in Contracts |-> 0]
    /\ minStakingDuration = [c \in Contracts |-> 0]
    /\ tsStart = 0
    /\ nextCheckpointTs = 0
    /\ approved = "none"
    /\ now = 0
    /\ staking_program = NO_STAKING_PROGRAM_ID
    /\ unstake = FALSE
    /\ attended = FALSE
    /\ use_staking_key = TRUE
    /\ pc = "idle"
    /\ available_rewards = 0
    /\ can_unstake = TRUE
    /\ tx_queue = <<>>
    /\ ret = "none"
    /\ unstake_program = "unset"
    /\ prompted = {}
    /\ txs = <<>>
    /\ reported = "none"
    /\ exit_code = RUNNING
    /\ history = <<>>
    /\ startState = serviceStakingState

\* One call of send_tx with its default-like arguments.
InitSubmit ==
    /\ staking_idle
    /\ tools_idle
    /\ claim_idle
    /\ mech_idle
    /\ timestamp = 0
    /\ transaction_count = 0
    /\ raw_tx = "unstake"
    /\ peer = NoPeer
    /\ send_tx_pc = "call"
    /\ tx_dict = [nonce |-> 0, gas |-> 0]
    /\ retries = 0
    /\ tx_digest = None
    /\ already_known = FALSE
    /\ deadline = 0
    /\ error = "none"
    /\ result = "none"
    /\ attempts = <<>>

NextSubmit ==
    \/ send_tx_call
    \/ send_tx_while
    \/ send_tx_sign_and_send
    \/ send_tx_poll
    \/ send_tx_except

SpecSubmit == InitSubmit /\ [][NextSubmit]_vars

\* Every RPC call of the try block returns or raises, and the interpreter
\* goes on with the next statement.
FairSubmit == SpecSubmit /\ WF_vars(NextSubmit)

\* ------------------------------------ two calls of send_tx for one signer
\* The other process is followed up to its first submission: lines 286-292
\* read the transaction count into the nonce of its tx_dict.
peer_send_tx_call ==
    /\ peer.pc = "call"
    /\ peer' = [peer EXCEPT !.pc = "sign",
                            !.tx_dict = [nonce |-> transaction_count, gas |-> 0]]
    /\ UNCHANGED <<timestamp, transaction_count, send_tx_pc, tx_dict, retries,
                   tx_digest, already_known, deadline, error, result, attempts,
                   raw_tx>>
    /\ UNCHANGED <<staking_vars, tools_vars, claim_vars, mech_vars>>

\* Lines 306-310 in the other process: its tx_dict is signed and sent.
peer_sign_and_send ==
    /\ peer.pc = "sign"
    /\ peer' = [peer EXCEPT !.pc = "sent"]
    /\ UNCHANGED <<timestamp, transaction_count, send_tx_pc, tx_dict, retries,
                   tx_digest, already_known, deadline, error, result, attempts,
                   raw_tx>>
    /\ UNCHANGED <<staking_vars, tools_vars, claim_vars, mech_vars>>

\* Lines 311-315 in the other process: its transaction has been mined and
\* it gets the receipt.
peer_poll ==
    /\ peer.pc = "sent"
    /\ peer' = [peer EXCEPT !.pc = "returned"]
    /\ transaction_count' = Mined(peer.tx_dict)
    /\ UNCHANGED <<timestamp, send_tx_pc, tx_dict, retries, tx_digest,
                   already_known, deadline, error, result, attempts, raw_tx>>
    /\ UNCHANGED <<staking_vars, tools_vars, claim_vars, mech_vars>>

\* Two invocations for the same signer, each about to call send_tx with a
\* raw_tx of its own.
InitRace ==
    /\ staking_idle
    /\ tools_idle
    /\ claim_idle
    /\ mech_idle
    /\ timestamp = 0
    /\ transaction_count = 0
    /\ raw_tx = "unstake"
    /\ peer = [NoPeer EXCEPT !.pc = "call", !.raw_tx = "approve"]
    /\ send_tx_pc = "call"
    /\ tx_dict = [nonce |-> 0, gas |-> 0]
    /\ retries = 0
    /\ tx_digest = None
    /\ already_known = FALSE
    /\ deadline = 0
    /\ error = "none"
    /\ result = "none"
    /\ attempts = <<>>

NextRace ==
    \/ NextSubmit
    \/ peer_send_tx_call
    \/ peer_sign_and_send
    \/ peer_poll

SpecRace == InitRace /\ [][NextRace]_vars

\* ======================================= scripts/claim_staking_rewards.py

\* main, lines 174-200: the operator confirms or not; a keystore password
\* is asked for and _claim_rewards is called.
claim_main ==
    /\ claim_pc = "main"
    /\ \E _continue \in {"yes", "no"} :
          IF _continue \notin {"y", "yes"}
          THEN claim_pc' = "done" /\ claim_exit_code' = 0
          ELSE claim_pc' = "_claim_rewards" /\ UNCHANGED claim_exit_code
    /\ UNCHANGED <<claim_receipt, claim_printed, claim_chain_calls>>
    /\ UNCHANGED <<staking_vars, tools_vars, send_tx_vars, mech_vars>>

\* What the except clauses of lines 136-143 print.
KeyErrorMessage(key) ==
    IF key = "DecryptError" THEN "Could not decrypt key"
    ELSE "Error decoding key file"

\* _claim_rewards, lines 113-143: the OLAS balance of the Safe is read from
\* the token contract and printed (_erc20_balance, line 120), the staking
\* contract is bound and the operator key is decrypted; DecryptError and
\* KeyIsIncorrect print their message and end the process with exit code 1.
claim_load_key ==
    /\ claim_pc = "_claim_rewards"
    /\ claim_chain_calls' = Append(claim_chain_calls, "balanceOf")
    /\ \E key \in {"ok", "DecryptError", "KeyIsIncorrect"} :
          IF key = "ok"
          THEN /\ claim_pc' = "send"
               /\ UNCHANGED <<claim_exit_code, claim_printed>>
          ELSE /\ claim_pc' = "done"
               /\ claim_exit_code' = 1
               /\ claim_printed' = KeyErrorMessage(key)
    /\ UNCHANGED claim_receipt
    /\ UNCHANGED <<staking_vars, tools_vars, send_tx_vars, mech_vars>>

\* Lines 145-158: the claim transaction is built, signed and sent, and
\* wait_for_transaction_receipt returns the receipt of the mined
\* transaction (with status 1 or 0, or without a status key) or raises; an
\* exception is caught nowhere and ends the process with exit code 1.
claim_send ==
    /\ claim_pc = "send"
    /\ \E outcome \in {"status_1", "status_0", "no_status", "raised"} :
          IF outcome = "raised"
          THEN /\ claim_pc' = "done"
               /\ claim_exit_code' = 1
               /\ UNCHANGED claim_receipt
          ELSE /\ claim_receipt' = outcome
               /\ claim_pc' = "receipt"
               /\ UNCHANGED claim_exit_code
    /\ claim_chain_calls' = claim_chain_calls
            \o <<"get_transaction_count", "send_raw_transaction">>
    /\ UNCHANGED claim_printed
    /\ UNCHANGED <<staking_vars, tools_vars, send_tx_vars, mech_vars>>

\* A receipt test that takes every receipt for a success.
ClaimReport_always_claimed(receipt) == "claimed"

\* Lines 160-166: the test of the receipt.
ClaimReport(receipt) ==
    IF receipt = "status_0" THEN "warning" ELSE "claimed"

\* Lines 160-171: the warning or the success message is printed, and
\* _claim_rewards and main return.
claim_check_receipt ==
    /\ claim_pc = "receipt"
    /\ claim_printed' = ClaimReport(claim_receipt)
    /\ claim_pc' = "done"
    /\ claim_exit_code' = 0
    /\ UNCHANGED <<claim_receipt, claim_chain_calls>>
    /\ UNCHANGED <<staking_vars, tools_vars, send_tx_vars, mech_vars>>

\* The write operations of the toolkit: an invocation of staking.py (stake,
\* unstake) or a run of claim_staking_rewards.py (claim).
InitWrite ==
    \/ Init
    \/ /\ staking_idle
       /\ tools_idle
       /\ send_tx_idle
       /\ mech_idle
       /\ claim_pc = "main"
       /\ claim_receipt = "none"
       /\ claim_printed = "none"
       /\ claim_exit_code = RUNNING
    /\ claim_chain_calls = <<>>

NextWrite ==
    \/ Next
    \/ claim_main
    \/ claim_load_key
    \/ claim_send
    \/ claim_check_receipt

SpecWrite == InitWrite /\ [][NextWrite]_vars

\* ================================================= scripts/mech_events.py

\* The events of subgraph_data in the order of the query (orderBy: id,
\* orderDirection: asc), lines 185-213.
RECURSIVE Ascending(_)
Ascending(ids) ==
    IF ids = {} THEN <<>>
    ELSE LET least == CHOOSE x \in ids : \A y \in ids : x <= y
         IN <<least>> \o Ascending(ids \ {least})

\* The events of the sender stored in a document, and the contents stored
\* for one of them ("absent" when it is not stored).
ipfs_contents(stored_events, id) ==
    IF id \in DOMAIN stored_events THEN stored_events[id] ELSE "absent"

\* A loop that builds every event of the query again.
NeedsBuild_always(stored_events, id) == TRUE

\* The test of lines 249-255: the event is not stored, or it is stored
\* with empty ipfs_contents.
NeedsBuild(stored_events, id) ==
    \/ id \notin DOMAIN stored_events
    \/ ipfs_contents(stored_events, id) = "empty"

\* What the file holds for the reader of this version of the script.
Persisted ==
    IF file.exists /\ ~ file.torn
       /\ file.doc.db_version >= MECH_EVENTS_DB_VERSION
    THEN file.doc.events ELSE NoEvents

\* The test of line 180.
Due(t, force_write) ==
    force_write \/ (t - last_write_time) >= MINIMUM_WRITE_FILE_DELAY

\* _write_mech_events_data_to_file, lines 174-181: when the write is due
\* the file is opened with mode "w", which empties it, and json.dump is
\* about to run; when it is not, the caller goes on at `after`.
_write_mech_events_data_to_file(t, force_write, after) ==
    IF Due(t, force_write)
    THEN /\ file' = TornFile
         /\ mech_pc' = IF force_write THEN "dump_forced" ELSE "dump"
    ELSE /\ UNCHANGED file
         /\ mech_pc' = after

\* A write that leaves out the events whose ipfs_contents are empty.
json_dump_resolved_only ==
    /\ mech_pc \in {"dump", "dump_forced"}
    /\ LET mine == mech_events_data.events
       IN file' = [exists |-> TRUE, torn |-> FALSE,
                   doc |-> [mech_events_data EXCEPT !.events =
                              [e \in {x \in DOMAIN mine : mine[x] # "empty"}
                                  |-> mine[e]]]]
    /\ last_write_time' = mech_time
    /\ mech_pc' = IF mech_pc = "dump" THEN "for" ELSE "return"
    /\ UNCHANGED <<subgraph, old_files, subgraph_data, mech_events_data,
                   position, mech_time, mech_warned, builds, syncs,
                   mech_error, mech_returned, mech_parked>>
    /\ UNCHANGED <<staking_vars, tools_vars, send_tx_vars, claim_vars>>

\* Lines 182-183: json.dump writes the whole document that is in memory,
\* the file is closed and last_write_time is set.
json_dump ==
    /\ mech_pc \in {"dump", "dump_forced"}
    /\ file' = [exists |-> TRUE, torn |-> FALSE, doc |-> mech_events_data]
    /\ last_write_time' = mech_time
    /\ mech_pc' = IF mech_pc = "dump" THEN "for" ELSE "return"
    /\ UNCHANGED <<subgraph, old_files, subgraph_data, mech_events_data,
                   position, mech_time, mech_warned, builds, syncs,
                   mech_error, mech_returned, mech_parked>>
    /\ UNCHANGED <<staking_vars, tools_vars, send_tx_vars, claim_vars>>

\* Lines 233-235: the query of the subgraph returns all the events of the
\* sender, or the request raises.
_query_mech_events_subgraph ==
    /\ mech_pc = "query"
    /\ \/ /\ subgraph_data' = Ascending(subgraph)
          /\ mech_pc' = "read"
          /\ UNCHANGED mech_error
       \/ /\ mech_pc' = "except"
          /\ mech_error' = "RequestException"
          /\ UNCHANGED subgraph_data
    /\ UNCHANGED <<subgraph, file, old_files, mech_events_data, position,
                   last_write_time, mech_time, mech_warned, builds, syncs,
                   mech_returned, mech_parked>>
    /\ UNCHANGED <<staking_vars, tools_vars, send_tx_vars, claim_vars>>

\* A store that takes over the events of the file of the older version.
fresh_store_keeps_events(old) ==
    [db_version |-> MECH_EVENTS_DB_VERSION, events |-> old.events]

\* Lines 162-163: the store that replaces a file of an older db_version is
\* empty but for the current db_version.
fresh_store(old) == FreshDocument

\* _read_mech_events_data_from_file, lines 151-167, with the setdefault
\* of lines 239-241: the document of the file, or a fresh one when the file
\* is missing or of an older db_version (the file is renamed then).  A file
\* that is not a JSON document makes json.load raise JSONDecodeError, which
\* only the except clause of the caller's try block catches.
_read_mech_events_data_from_file ==
    /\ mech_pc = "read"
    /\ IF ~ file.exists
       THEN /\ mech_events_data' = FreshDocument
            /\ mech_pc' = "for"
            /\ UNCHANGED <<file, old_files, mech_error>>
       ELSE IF file.torn
       THEN /\ mech_error' = "JSONDecodeError"
            /\ mech_pc' = "except"
            /\ UNCHANGED <<file, old_files, mech_events_data>>
       ELSE IF file.doc.db_version < MECH_EVENTS_DB_VERSION
       THEN /\ mech_events_data' = fresh_store(file.doc)
            /\ file' = NoFile
            /\ old_files' = Append(old_files, file.doc)
            /\ mech_pc' = "for"
            /\ UNCHANGED mech_error
       ELSE /\ mech_events_data' = file.doc
            /\ mech_pc' = "for"
            /\ UNCHANGED <<file, old_files, mech_error>>
    /\ position' = 1
    /\ UNCHANGED <<subgraph, subgraph_data, last_write_time, mech_time,
                   mech_warned, builds, syncs, mech_returned, mech_parked>>
    /\ UNCHANGED <<staking_vars, tools_vars, send_tx_vars, claim_vars>>

\* One iteration of the for loop, lines 244-259: an event that needs it is
\* built (the IPFS gateway answers or not, which leaves ipfs_contents
\* resolved or empty), put in the document, and the throttled write runs.
_update_mech_events_db_for ==
    /\ mech_pc = "for"
    /\ position <= Len(subgraph_data)
    /\ LET id == subgraph_data[position]
           stored_events == mech_events_data.events IN
       IF NeedsBuild(stored_events, id)
       THEN \E contents \in {"resolved", "empty"},
               elapsed \in {0, MINIMUM_WRITE_FILE_DELAY} :
              LET data == [mech_events_data EXCEPT !.events =
                              [e \in DOMAIN stored_events \cup {id} |->
                                  IF e = id THEN contents ELSE stored_events[e]]]
              IN /\ mech_events_data' = data
                 /\ mech_time' = mech_time + elapsed
                 /\ builds' = builds \cup
                        {[sync |-> syncs, id |-> id,
                          stored |-> ipfs_contents(Persisted, id)]}
                 /\ _write_mech_events_data_to_file(mech_time', FALSE, "for")
       ELSE UNCHANGED <<mech_events_data, mech_time, builds, file, mech_pc>>
    /\ position' = position + 1
    /\ UNCHANGED <<subgraph, old_files, subgraph_data, last_write_time,
                   mech_warned, syncs, mech_error, mech_returned,
                   mech_parked>>
    /\ UNCHANGED <<staking_vars, tools_vars, send_tx_vars, claim_vars>>

\* Lines 261-263: the forced write after the loop.
_update_mech_events_db_write ==
    /\ mech_pc = "for"
    /\ position > Len(subgraph_data)
    /\ _write_mech_events_data_to_file(mech_time, TRUE, "return")
    /\ UNCHANGED <<subgraph, old_files, subgraph_data, mech_events_data,
                   position, last_write_time, mech_time, mech_warned, builds,
                   syncs, mech_error, mech_returned, mech_parked>>
    /\ UNCHANGED <<staking_vars, tools_vars, send_tx_vars, claim_vars>>

\* The operator presses Ctrl-C while the try block runs: between two of its
\* statements, or while json.dump is writing the file.
KeyboardInterrupt ==
    /\ mech_pc \in {"query", "read", "for", "dump", "dump_forced"}
    /\ mech_pc' = "except"
    /\ mech_error' = "KeyboardInterrupt"
    /\ UNCHANGED <<subgraph, file, old_files, subgraph_data, mech_events_data,
                   position, last_write_time, mech_time, mech_warned, builds,
                   syncs, mech_returned, mech_parked>>
    /\ UNCHANGED <<staking_vars, tools_vars, send_tx_vars, claim_vars>>

\* Lines 265-279: the except clauses print their warning, wait for Enter,
\* and the function returns.
_update_mech_events_db_except ==
    /\ mech_pc = "except"
    /\ mech_warned' = TRUE
    /\ mech_pc' = "return"
    /\ UNCHANGED <<subgraph, file, old_files, subgraph_data, mech_events_data,
                   position, last_write_time, mech_time, builds, syncs,
                   mech_error, mech_returned, mech_parked>>
    /\ UNCHANGED <<staking_vars, tools_vars, send_tx_vars, claim_vars>>

\* _get_mech_events, lines 284-290: after the update the file is read
\* again, outside any try block, and the events of the sender are
\* returned; JSONDecodeError ends the process with a traceback.
_get_mech_events ==
    /\ mech_pc = "return"
    /\ IF ~ file.exists
       THEN /\ mech_returned' = NoEvents
            /\ mech_pc' = "done"
            /\ UNCHANGED <<file, old_files>>
       ELSE IF file.torn
       THEN /\ mech_pc' = "crashed"
            /\ UNCHANGED <<file, old_files, mech_returned>>
       ELSE IF file.doc.db_version < MECH_EVENTS_DB_VERSION
       THEN /\ mech_returned' = NoEvents
            /\ file' = NoFile
            /\ old_files' = Append(old_files, file.doc)
            /\ mech_pc' = "done"
       ELSE /\ mech_returned' = file.doc.events
            /\ mech_pc' = "done"
            /\ UNCHANGED <<file, old_files>>
    /\ UNCHANGED <<subgraph, subgraph_data, mech_events_data, position,
                   last_write_time, mech_time, mech_warned, builds, syncs,
                   mech_error, mech_parked>>
    /\ UNCHANGED <<staking_vars, tools_vars, send_tx_vars, claim_vars>>

\* The script is run again: a new process calls get_mech_requests.
SyncAgain ==
    /\ mech_pc \in {"done", "crashed"}
    /\ syncs < MaxSyncs
    /\ syncs' = syncs + 1
    /\ mech_pc' = "query"
    /\ subgraph_data' = <<>>
    /\ mech_events_data' = FreshDocument
    /\ position' = 1
    /\ last_write_time' = 0
    /\ mech_time' = MINIMUM_WRITE_FILE_DELAY
    /\ mech_warned' = FALSE
    /\ mech_error' = "none"
    /\ mech_returned' = NoEvents
    /\ UNCHANGED <<subgraph, file, old_files, builds, mech_parked>>
    /\ UNCHANGED <<staking_vars, tools_vars, send_tx_vars, claim_vars>>

\* The subgraph indexes one more event of the sender.
SubgraphIndexes ==
    /\ Cardinality(subgraph) < MaxEvents
    /\ subgraph' = subgraph \cup {Cardinality(subgraph) + 1}
    /\ UNCHANGED <<file, old_files, mech_process, mech_time, builds, syncs,
                   mech_parked>>
    /\ UNCHANGED <<staking_vars, tools_vars, send_tx_vars, claim_vars>>

\* The first call of a first run: no file yet, or a file of an older
\* db_version.
InitMirror ==
    /\ staking_idle
    /\ tools_idle
    /\ send_tx_idle
    /\ claim_idle
    /\ subgraph \in {1..n : n \in 0..MaxEvents}
    /\ file \in {NoFile,
                  [exists |-> TRUE, torn |-> FALSE,
                   doc |-> [db_version |-> MECH_EVENTS_DB_VERSION - 1,
                            events |-> [id \in {1} |-> "resolved"]]]}
    /\ old_files = <<>>
    /\ mech_pc = "query"
    /\ subgraph_data = <<>>
    /\ mech_events_data = FreshDocument
    /\ position = 1
    /\ last_write_time = 0
    /\ mech_time = MINIMUM_WRITE_FILE_DELAY
    /\ mech_warned = FALSE
    /\ builds = {}
    /\ syncs = 1
    /\ mech_error = "none"
    /\ mech_returned = NoEvents
    /\ mech_parked = NoProcess

NextMirror ==
    \/ _query_mech_events_subgraph
    \/ _read_mech_events_data_from_file
    \/ _update_mech_events_db_for
    \/ json_dump
    \/ _update_mech_events_db_write
    \/ KeyboardInterrupt
    \/ _update_mech_events_db_except
    \/ _get_mech_events
    \/ SyncAgain
    \/ SubgraphIndexes

SpecMirror == InitMirror /\ [][NextMirror]_vars

\* ------------------------------------- two processes on one cache file
\* The operating system runs the other process: the locals, the position
\* and the module global last_write_time of the running process are put
\* aside and those of the other are taken up; the file, the subgraph and
\* the clock are shared.
Switch ==
    /\ mech_parked.mech_pc \notin {"idle", "done", "crashed"}
    /\ mech_parked' =
          [mech_pc |-> mech_pc, subgraph_data |-> subgraph_data,
           mech_events_data |-> mech_events_data, position |-> position,
           last_write_time |-> last_write_time, mech_warned |-> mech_warned,
           mech_error |-> mech_error, mech_returned |-> mech_returned]
    /\ mech_pc' = mech_parked.mech_pc
    /\ subgraph_data' = mech_parked.subgraph_data
    /\ mech_events_data' = mech_parked.mech_events_data
    /\ position' = mech_parked.position
    /\ last_write_time' = mech_parked.last_write_time
    /\ mech_warned' = mech_parked.mech_warned
    /\ mech_error' = mech_parked.mech_error
    /\ mech_returned' = mech_parked.mech_returned
    /\ UNCHANGED <<subgraph, file, old_files, mech_time, builds, syncs>>
    /\ UNCHANGED <<staking_vars, tools_vars, send_tx_vars, claim_vars>>

\* Two processes call get_mech_requests for the same sender at once; the
\* operator interrupts neither.
InitShared ==
    /\ staking_idle
    /\ tools_idle
    /\ send_tx_idle
    /\ claim_idle
    /\ subgraph \in {1..n : n \in 0..MaxEvents}
    /\ file = NoFile
    /\ old_files = <<>>
    /\ mech_pc = "query"
    /\ subgraph_data = <<>>
    /\ mech_events_data = FreshDocument
    /\ position = 1
    /\ last_write_time = 0
    /\ mech_time = MINIMUM_WRITE_FILE_DELAY
    /\ mech_warned = FALSE
    /\ builds = {}
    /\ syncs = MaxSyncs
    /\ mech_error = "none"
    /\ mech_returned = NoEvents
    /\ mech_parked = [NoProcess EXCEPT !.mech_pc = "query"]

NextShared ==
    \/ _query_mech_events_subgraph
    \/ _read_mech_events_data_from_file
    \/ _update_mech_events_db_for
    \/ json_dump
    \/ _update_mech_events_db_write
    \/ _update_mech_events_db_except
    \/ _get_mech_events
    \/ SubgraphIndexes
    \/ Switch

SpecShared == InitShared /\ [][NextShared]_vars

\* ============================================ scripts/choose_staking.py

\* list(STAKING_PROGRAMS.keys()), line 101, and `key in catalog`.
ids == [i \in DOMAIN STAKING_PROGRAMS |-> STAKING_PROGRAMS[i].key]
InCatalog(catalog, key) == \E i \in DOMAIN catalog : catalog[i].key = key

\* What the lookup meets.  The contract read (lines 171-172, with the ABI
\* of _get_abi): it answers with the metadata hash, it raises, or the
\* "result" field of the ABI answer is not JSON and _get_abi calls
\* sys.exit(1) (lines 130-134).  The gateway fetch (lines 174-177): the
\* request raises, the status is not 200, or the status is 200 and the body
\* is not JSON, is a mapping with or without the two keys, or is a list.
ContractReads == {"ok", "raises", "sys_exit"}
Fetches ==
    {"ConnectionError", "status_404", "malformed_json",
     "json_name_description", "json_no_name", "json_no_description",
     "json_list"}

\* response.json() of an answer with status 200 whose body is JSON.
ResponseJson(fetch) ==
    [body |-> IF fetch = "json_list" THEN "list" ELSE "mapping",
     name |-> IF fetch \in {"json_name_description", "json_no_description"}
              THEN "fetched name" ELSE "missing",
     description |-> IF fetch \in {"json_name_description", "json_no_name"}
                     THEN "fetched description" ELSE "missing"]

\* _get_staking_contract_metadata, lines 166-184.  SystemExit is not an
\* Exception and passes the except clause.
_get_staking_contract_metadata(key, contract_read, fetch) ==
    IF key = NO_STAKING_PROGRAM_ID
    THEN [raised |-> "none", value |-> NO_STAKING_PROGRAM_METADATA]
    ELSE IF contract_read = "sys_exit"
    THEN [raised |-> "SystemExit", value |-> NoMetadata]
    ELSE IF contract_read = "ok"
            /\ fetch \notin {"ConnectionError", "status_404", "malformed_json"}
    THEN [raised |-> "none", value |-> ResponseJson(fetch)]
    ELSE [raised |-> "none",
          value |-> [body |-> "mapping", name |-> key, description |-> key]]

\* A start that keeps whatever program the file names.
select_start_keeps_stored ==
    /\ select_pc = "start"
    /\ LET stored == IF env_file_vars = "absent" THEN "None"
                     ELSE env_file_vars
       IN IF stored \notin {"None", ""}
          THEN /\ select_program_id' = stored
               /\ select_pc' = "return"
          ELSE IF ATTENDED = "false"
          THEN /\ select_program_id' = NO_STAKING_PROGRAM_ID
               /\ select_pc' = "return_default"
          ELSE /\ select_program_id' = "None"
               /\ select_pc' = "for"
    /\ index' = 1
    /\ UNCHANGED <<env_file_vars, ATTENDED, metadata, listed, inputs,
                   select_result>>
    /\ UNCHANGED <<staking_vars, send_tx_vars, claim_vars, mech_vars,
                   table_vars, service_vars, query_vars>>

\* Lines 82-97: the stored program is kept when it is a key of
\* STAKING_PROGRAMS; without one, ATTENDED=false returns the sentinel.
select_start ==
    /\ select_pc = "start"
    /\ LET stored == IF env_file_vars = "absent" THEN "None"
                     ELSE IF InCatalog(STAKING_PROGRAMS, env_file_vars)
                     THEN env_file_vars ELSE "None"
       IN IF stored \notin {"None", ""}
          THEN /\ select_program_id' = stored
               /\ select_pc' = "return"
          ELSE IF ATTENDED = "false"
          THEN /\ select_program_id' = NO_STAKING_PROGRAM_ID
               /\ select_pc' = "return_default"
          ELSE /\ select_program_id' = "None"
               /\ select_pc' = "for"
    /\ index' = 1
    /\ UNCHANGED <<env_file_vars, ATTENDED, metadata, listed, inputs,
                   select_result>>
    /\ UNCHANGED <<staking_vars, send_tx_vars, claim_vars, mech_vars,
                   table_vars, service_vars, query_vars>>

\* One iteration of the loop of lines 102-107: the metadata of the key is
\* looked up and its name and description are printed; a body without the
\* key raises KeyError, a body that is a list raises TypeError.
select_for ==
    /\ select_pc = "for"
    /\ index <= Len(ids)
    /\ \E contract_read \in ContractReads, fetch \in Fetches :
          LET r == _get_staking_contract_metadata(ids[index], contract_read, fetch)
              raised == IF r.raised # "none" THEN r.raised
                        ELSE IF r.value.body # "mapping" THEN "TypeError"
                        ELSE IF r.value.name = "missing"
                                \/ r.value.description = "missing"
                        THEN "KeyError"
                        ELSE "none"
          IN /\ metadata' = r.value
             /\ IF raised # "none"
                THEN /\ select_result' = raised
                     /\ select_pc' = "raised"
                     /\ UNCHANGED <<listed, index>>
                ELSE /\ listed' = Append(listed,
                            [name |-> r.value.name,
                             description |-> r.value.description])
                     /\ index' = index + 1
                     /\ select_pc' = IF index + 1 > Len(ids)
                                     THEN "input" ELSE "for"
                     /\ UNCHANGED select_result
    /\ UNCHANGED <<env_file_vars, ATTENDED, select_program_id, inputs>>
    /\ UNCHANGED <<staking_vars, send_tx_vars, claim_vars, mech_vars,
                   table_vars, service_vars, query_vars>>

\* int(answer) of line 111; "ValueError" for an answer that is no number.
Answers == {"0", "1", "2", "3", "x"}
ParseInt(answer) ==
    CASE answer = "0" -> 0
      [] answer = "1" -> 1
      [] answer = "2" -> 2
      [] answer = "3" -> 3
      [] OTHER -> -1

\* Line 112.
InRange(choice) == 0 <= choice /\ choice < Len(ids)

\* One pass of the loop of lines 109-117: an answer is read; a number
\* within range selects the program, any other answer asks again.
select_input ==
    /\ select_pc = "input"
    /\ Len(inputs) < MaxInputs
    /\ \E answer \in Answers :
          /\ inputs' = Append(inputs, answer)
          /\ IF answer # "x" /\ InRange(ParseInt(answer) - 1)
             THEN /\ select_program_id' = ids[(ParseInt(answer) - 1) + 1]
                  /\ select_pc' = "return"
             ELSE UNCHANGED <<select_program_id, select_pc>>
    /\ UNCHANGED <<env_file_vars, ATTENDED, index, metadata, listed,
                   select_result>>
    /\ UNCHANGED <<staking_vars, send_tx_vars, claim_vars, mech_vars,
                   table_vars, service_vars, query_vars>>

\* Lines 96-97 and 119-121: the function returns program_id.
select_return ==
    /\ select_pc \in {"return", "return_default"}
    /\ select_result' = select_program_id
    /\ select_pc' = "done"
    /\ UNCHANGED <<env_file_vars, ATTENDED, select_program_id, index,
                   metadata, listed, inputs>>
    /\ UNCHANGED <<staking_vars, send_tx_vars, claim_vars, mech_vars,
                   table_vars, service_vars, query_vars>>

\* A call of _prompt_select_staking_program: the .env file has no
\* STAKING_PROGRAM, an empty one, a key of the active or of the deprecated
\* catalog, or an unknown one.
InitSelect ==
    /\ staking_idle
    /\ send_tx_idle
    /\ claim_idle
    /\ mech_idle
    /\ table_idle
    /\ service_idle
    /\ query_idle
    /\ env_file_vars \in
          {"absent", "", "unknown_program"}
          \cup {STAKING_PROGRAMS[i].key : i \in DOMAIN STAKING_PROGRAMS}
          \cup {DEPRECATED_STAKING_PROGRAMS[i].key :
                   i \in DOMAIN DEPRECATED_STAKING_PROGRAMS}
    /\ ATTENDED \in {"None", "true", "false"}
    /\ select_pc = "start"
    /\ select_program_id = "None"
    /\ index = 1
    /\ metadata = NoMetadata
    /\ listed = <<>>
    /\ inputs = <<>>
    /\ select_result = "none"

NextSelect ==
    \/ select_start
    \/ select_for
    \/ select_input
    \/ select_return

SpecSelect == InitSelect /\ [][NextSelect]_vars

\* ============================================================== trades.py
\* The statistics table of parse_user and its totals (_compute_totals).

RECURSIVE Sum(_, _)
\* sum(f[c] for c in S)
Sum(f, S) ==
    IF S = {} THEN 0
    ELSE LET c == CHOOSE x \in S : TRUE IN f[c] + Sum(f, S \ {c})

RECURSIVE Gcd(_, _)
Gcd(a, b) == IF b = 0 THEN a ELSE Gcd(b, a % b)

Abs(a) == IF a < 0 THEN 0 - a ELSE a

\* Python's int / int: the quotient as a fraction in lowest terms with a
\* positive denominator; a zero divisor raises ZeroDivisionError.
TrueDiv(n, d) ==
    IF d = 0 THEN ZeroDivisionError
    ELSE LET g == Gcd(Abs(n), Abs(d))
             s == IF d < 0 THEN 0 - 1 ELSE 1
         IN  [num |-> (s * n) \div g, den |-> (s * d) \div g]

\* An ROI that leaves the earnings undiminished by what was put in.
_compute_roi_gross(initial_value, final_value) ==
    IF initial_value # 0
    THEN TrueDiv(final_value, initial_value)
    ELSE ZeroFloat

\* trades.py lines 454-460.
_compute_roi(initial_value, final_value) ==
    IF initial_value # 0
    THEN TrueDiv(final_value - initial_value, initial_value)
    ELSE ZeroFloat

\* trades.py lines 465-467: the TOTAL cell of every row becomes the sum of
\* the cells of the row (the TOTAL cell itself, still 0, among them).
RowTotals(table) ==
    [row \in STATS_TABLE_ROWS |->
        [table[row] EXCEPT !["TOTAL"] = Sum(table[row], DOMAIN table[row])]]

\* trades.py lines 469-480: the totals of the Mech rows are taken from the
\* Mech statistics, which also hold the calls for markets never traded.
MechTotals(table, statistics) ==
    [table EXCEPT
        !["MECH_CALLS"]["TOTAL"] =
            Sum([t \in Titles |-> statistics[t].count], Titles),
        !["MECH_FEES"]["TOTAL"] =
            Sum([t \in Titles |-> statistics[t].fees], Titles)]

\* A deduction that takes the fees off a column two times.
deduct_fees_twice(table) ==
    [table EXCEPT !["INVESTMENT"] =
        [col \in STATS_TABLE_COLS |->
            table["INVESTMENT"][col] - table["FEES"][col]
                - table["FEES"][col]]]

\* trades.py lines 484-486: INVESTMENT of the column is replaced by
\* INVESTMENT - FEES.
deduct_fees(table) ==
    [table EXCEPT !["INVESTMENT"] =
        [col \in STATS_TABLE_COLS |->
            table["INVESTMENT"][col] - table["FEES"][col]]]

\* trades.py lines 487-492, read after the deduction.
net_earnings(table) ==
    [table EXCEPT !["NET_EARNINGS"] =
        [col \in STATS_TABLE_COLS |->
            table["EARNINGS"][col] - table["INVESTMENT"][col]
                - table["FEES"][col] - table["MECH_FEES"][col]]]

\* trades.py lines 494-499, read after the deduction.
roi(table) ==
    [col \in STATS_TABLE_COLS |->
        _compute_roi(table["INVESTMENT"][col] + table["FEES"][col]
                        + table["MECH_FEES"][col],
                     table["EARNINGS"][col])]

\* The current answer of a market, as parse_user tells the cases apart
\* (lines 727-784); only finalizing and closed markets are asked for it.
CurrentAnswers(market_status) ==
    IF market_status \in {"FINALIZING", "CLOSED"}
    THEN {"invalid", "winner", "loser"}
    ELSE {"none"}

\* The tokens bought by a trade; they are read for the winner answer only.
TokensTraded(answer) == IF answer = "winner" THEN {0, MaxAmount} ELSE {0}

\* What the answer of the market pays (lines 727-784): the collateral when
\* the market is declared invalid, the tokens bought for the winner answer,
\* nothing otherwise.
Earnings(answer, collateral_amount, outcomes_tokens_traded) ==
    IF answer = "invalid" THEN collateral_amount
    ELSE IF answer = "winner" THEN outcomes_tokens_traded
    ELSE 0

\* The trades of the table so far.
Parsed == Sum(statistics_table["NUM_TRADES"], MarketState)

\* A lookup that leaves the Mech data of the title in the copy.
_mech_statistics_get(title) == mech_statistics[title]

\* Line 716, _mech_statistics.pop(fpmmTrade["title"], {}): the Mech data of
\* the title the first time it is asked for, and nothing (count and fees
\* read as 0 by the two get calls of lines 719-720) from then on.
_mech_statistics_pop(title) ==
    IF title \in popped THEN MechStatistics(0) ELSE mech_statistics[title]

\* parse_user, lines 690-795: one trade of the loop is added to the column
\* of its market state.  The Mech data of a title is popped from the local
\* copy of the statistics, so that a second trade of the same market adds
\* no Mech calls.
parse_user_trade ==
    /\ table_pc = "for"
    /\ Parsed < MaxTrades
    /\ \E market_status \in MarketState, title \in TradedTitles,
          collateral_amount \in {0, MaxAmount}, fee_amount \in {0, 1} :
       \E answer \in CurrentAnswers(market_status) :
       \E outcomes_tokens_traded \in TokensTraded(answer) :
          LET mech_data == _mech_statistics_pop(title)
              earnings == Earnings(answer, collateral_amount,
                                   outcomes_tokens_traded)
          IN  /\ statistics_table' =
                    [statistics_table EXCEPT
                        !["NUM_TRADES"][market_status] = @ + 1,
                        !["INVESTMENT"][market_status] = @ + collateral_amount,
                        !["FEES"][market_status] = @ + fee_amount,
                        !["MECH_CALLS"][market_status] = @ + mech_data.count,
                        !["MECH_FEES"][market_status] = @ + mech_data.fees,
                        !["EARNINGS"][market_status] = @ + earnings]
              /\ popped' = popped \cup {title}
    /\ UNCHANGED <<table_pc, statistics_roi, mech_statistics>>
    /\ UNCHANGED <<staking_vars, send_tx_vars, claim_vars, mech_vars,
                   select_vars, service_vars, query_vars>>

\* _compute_totals, lines 463-499, called once at the end of parse_user
\* (line 816).
_compute_totals ==
    /\ table_pc = "for"
    /\ LET table == net_earnings(deduct_fees(
                        MechTotals(RowTotals(statistics_table),
                                   mech_statistics)))
       IN  /\ statistics_table' = table
           /\ statistics_roi' = roi(table)
    /\ table_pc' = "done"
    /\ UNCHANGED <<mech_statistics, popped>>
    /\ UNCHANGED <<staking_vars, send_tx_vars, claim_vars, mech_vars,
                   select_vars, service_vars, query_vars>>

InitTable ==
    /\ staking_idle
    /\ send_tx_idle
    /\ claim_idle
    /\ mech_idle
    /\ select_idle
    /\ service_idle
    /\ query_idle
    /\ table_pc = "for"
    /\ statistics_table = EmptyTable
    /\ statistics_roi = NoRoi
    /\ mech_statistics \in [Titles -> {MechStatistics(n) : n \in 0 .. MaxMechCalls}]
    /\ popped = {}

NextTable ==
    \/ parse_user_trade
    \/ _compute_totals

SpecTable == InitTable /\ [][NextTable]_vars

\* ==================================== run_service.py and stop_service.py
\* The operator runs the two scripts one after the other, in any order.  The
\* calls into the operate library are taken by what they are called for:
\* deploy_service_locally starts the containers of the service,
\* stop_service_locally stops the containers of the service it is given.

NoOperationRuns ==
    /\ run_pc \in {"idle", "done", "failed"}
    /\ stop_pc \in {"idle", "done", "failed"}
    /\ Len(operations) < MaxOperations

\* run_service.py main, lines 528-536.
run_service_main ==
    /\ NoOperationRuns
    /\ run_pc' = "configure_local_config"
    /\ stop_pc' = "idle"
    /\ UNCHANGED <<local_config_json, manager_json, user_account, wallet,
                   containers, operations>>
    /\ UNCHANGED <<staking_vars, send_tx_vars, claim_vars, mech_vars,
                   select_vars, table_vars, query_vars>>

\* configure_local_config, lines 333-382: the configuration is loaded or
\* created, completed from the prompts and stored (line 381).
configure_local_config ==
    /\ run_pc = "configure_local_config"
    /\ local_config_json' = TRUE
    /\ run_pc' = "get_service"
    /\ UNCHANGED <<stop_pc, manager_json, user_account, wallet, containers,
                   operations>>
    /\ UNCHANGED <<staking_vars, send_tx_vars, claim_vars, mech_vars,
                   select_vars, table_vars, query_vars>>

\* get_service, lines 502-525: the first service of the manager is loaded
\* (or updated); without one a service is created.
get_service == TRUE

\* run_service.py main, lines 539-541.
run_get_service ==
    /\ run_pc = "get_service"
    /\ manager_json' = get_service
    /\ run_pc' = "user_account"
    /\ UNCHANGED <<stop_pc, local_config_json, user_account, wallet,
                   containers, operations>>
    /\ UNCHANGED <<staking_vars, send_tx_vars, claim_vars, mech_vars,
                   select_vars, table_vars, query_vars>>

\* run_service.py main, lines 544-561: without a user account one is created
\* and the configuration is stored again; with one the password is asked
\* until it is valid.
run_user_account ==
    /\ run_pc = "user_account"
    /\ IF ~user_account
       THEN user_account' = TRUE /\ local_config_json' = TRUE
       ELSE UNCHANGED <<user_account, local_config_json>>
    /\ run_pc' = "wallet"
    /\ UNCHANGED <<stop_pc, manager_json, wallet, containers, operations>>
    /\ UNCHANGED <<staking_vars, send_tx_vars, claim_vars, mech_vars,
                   select_vars, table_vars, query_vars>>

\* run_service.py main, lines 563-575: the main wallet is created or loaded.
run_wallet ==
    /\ run_pc = "wallet"
    /\ wallet' = TRUE
    /\ run_pc' = "deploy_service_onchain_from_safe"
    /\ UNCHANGED <<stop_pc, local_config_json, manager_json, user_account,
                   containers, operations>>
    /\ UNCHANGED <<staking_vars, send_tx_vars, claim_vars, mech_vars,
                   select_vars, table_vars, query_vars>>

\* run_service.py main, lines 577-706: the funding requirements are met, the
\* service is deployed on chain and funded.
run_deploy_service_onchain ==
    /\ run_pc = "deploy_service_onchain_from_safe"
    /\ run_pc' = "deploy_service_locally"
    /\ UNCHANGED <<stop_pc, local_config_json, manager_json, user_account,
                   wallet, containers, operations>>
    /\ UNCHANGED <<staking_vars, send_tx_vars, claim_vars, mech_vars,
                   select_vars, table_vars, query_vars>>

\* run_service.py main, lines 708-712: the containers of the service are
\* started.
run_deploy_service_locally ==
    /\ run_pc = "deploy_service_locally"
    /\ containers' = TRUE
    /\ run_pc' = "done"
    /\ operations' = Append(operations, "run: started")
    /\ UNCHANGED <<stop_pc, local_config_json, manager_json, user_account,
                   wallet>>
    /\ UNCHANGED <<staking_vars, send_tx_vars, claim_vars, mech_vars,
                   select_vars, table_vars, query_vars>>

\* The run ends early: a sys.exit (ask_confirm_password, line 159), an
\* exception of a call or an interruption by the operator.  A deployment
\* that is broken off may have started containers already.
run_service_fails ==
    /\ run_pc \notin {"idle", "done", "failed"}
    /\ run_pc' = "failed"
    /\ IF run_pc = "deploy_service_locally"
       THEN containers' \in {containers, TRUE}
       ELSE UNCHANGED containers
    /\ operations' = Append(operations, "run: failed")
    /\ UNCHANGED <<stop_pc, local_config_json, manager_json, user_account,
                   wallet>>
    /\ UNCHANGED <<staking_vars, send_tx_vars, claim_vars, mech_vars,
                   select_vars, table_vars, query_vars>>

\* stop_service.py main, lines 30-36.
stop_service_main ==
    /\ NoOperationRuns
    /\ stop_pc' = "path.exists"
    /\ run_pc' = "idle"
    /\ UNCHANGED <<local_config_json, manager_json, user_account, wallet,
                   containers, operations>>
    /\ UNCHANGED <<staking_vars, send_tx_vars, claim_vars, mech_vars,
                   select_vars, table_vars, query_vars>>

\* stop_service.py main, lines 38-42: without local_config.json the script
\* prints "Nothing to clean. Exiting." and exits with code 0.
stop_path_exists ==
    /\ stop_pc = "path.exists"
    /\ IF ~local_config_json
       THEN /\ stop_pc' = "done"
            /\ operations' = Append(operations, "stop: Nothing to clean")
       ELSE /\ stop_pc' = "get_service"
            /\ UNCHANGED operations
    /\ UNCHANGED <<run_pc, local_config_json, manager_json, user_account,
                   wallet, containers>>
    /\ UNCHANGED <<staking_vars, send_tx_vars, claim_vars, mech_vars,
                   select_vars, table_vars, query_vars>>

\* stop_service.py main, lines 44-47.
stop_get_service ==
    /\ stop_pc = "get_service"
    /\ manager_json' = get_service
    /\ stop_pc' = "stop_service_locally"
    /\ UNCHANGED <<run_pc, local_config_json, user_account, wallet,
                   containers, operations>>
    /\ UNCHANGED <<staking_vars, send_tx_vars, claim_vars, mech_vars,
                   select_vars, table_vars, query_vars>>

\* A stop that deletes the deployment and leaves its containers running.
stop_service_locally_delete_only ==
    /\ stop_pc = "stop_service_locally"
    /\ stop_pc' = "done"
    /\ operations' = Append(operations, "stop: service stopped")
    /\ UNCHANGED <<run_pc, local_config_json, manager_json, user_account,
                   wallet, containers>>
    /\ UNCHANGED <<staking_vars, send_tx_vars, claim_vars, mech_vars,
                   select_vars, table_vars, query_vars>>

\* stop_service.py main, lines 48-51: the containers of the service are
\* stopped and the deployment is deleted.
stop_service_locally ==
    /\ stop_pc = "stop_service_locally"
    /\ containers' = FALSE
    /\ stop_pc' = "done"
    /\ operations' = Append(operations, "stop: service stopped")
    /\ UNCHANGED <<run_pc, local_config_json, manager_json, user_account,
                   wallet>>
    /\ UNCHANGED <<staking_vars, send_tx_vars, claim_vars, mech_vars,
                   select_vars, table_vars, query_vars>>

\* The stop ends early with an exception of a call or an interruption.
stop_service_fails ==
    /\ stop_pc \in {"get_service", "stop_service_locally"}
    /\ stop_pc' = "failed"
    /\ operations' = Append(operations, "stop: failed")
    /\ UNCHANGED <<run_pc, local_config_json, manager_json, user_account,
                   wallet, containers>>
    /\ UNCHANGED <<staking_vars, send_tx_vars, claim_vars, mech_vars,
                   select_vars, table_vars, query_vars>>

InitService ==
    /\ staking_idle
    /\ send_tx_idle
    /\ claim_idle
    /\ mech_idle
    /\ select_idle
    /\ table_idle
    /\ query_idle
    /\ service_idle

NextService ==
    \/ run_service_main
    \/ configure_local_config
    \/ run_get_service
    \/ run_user_account
    \/ run_wallet
    \/ run_deploy_service_onchain
    \/ run_deploy_service_locally
    \/ run_service_fails
    \/ stop_service_main
    \/ stop_path_exists
    \/ stop_get_service
    \/ stop_service_locally
    \/ stop_service_fails

SpecService == InitService /\ [][NextService]_vars

\* ================================================================ claims

Target == staking_contract_address
UnstakedAtStart == \A c \in Contracts : startState[c] = UNSTAKED
StartSlots(c) ==
    MaxNumServices
      - (otherServiceIds[c] + (IF startState[c] # UNSTAKED THEN 1 ELSE 0))
Failed(tx) == tx.receipt \in {"reverted", "error"}
GuardRefusals == {"cannot_unstake", "no_slots", "no_rewards"}

\* C1: The unstake-eligibility guard answers false exactly when
\* now - staked_since_ts < min_staking_duration and available_rewards > 0,
\* and true in every other case.
C1_GuardCorrectness ==
    pc = "can_unstake" =>
        ( (can_unstake = FALSE)
            <=> ( (now - get_service_info_ts_start(Target)) < minStakingDuration[Target]
                  /\ availableRewards[Target] > 0 ) )

\* The guard has answered true although the minimum duration has not
\* elapsed, because no rewards are available.
C1_Witness ==
    /\ pc = "can_unstake"
    /\ can_unstake = TRUE
    /\ (now - get_service_info_ts_start(Target)) < minStakingDuration[Target]
    /\ availableRewards[Target] = 0

\* C2: From a service staked nowhere, a real target program with a free
\* slot and rewards, a stake-mode invocation hands over approve then stake
\* and nothing else, the stake only after a successful receipt of the
\* approve, and it exits 0 only with both receipts successful.
C2_Pre ==
    /\ ~ unstake
    /\ staking_program # NO_STAKING_PROGRAM_ID
    /\ UnstakedAtStart
    /\ StartSlots(Target) > 0
    /\ availableRewards[Target] > 0

C2_ApproveThenStake ==
    C2_Pre =>
        /\ Len(txs) <= 2
        /\ Len(txs) >= 1 =>
              /\ txs[1].kind = "approve"
              /\ txs[1].to = SERVICE_REGISTRY
              /\ txs[1].contract = Target
        /\ Len(txs) = 2 =>
              /\ txs[2].kind = "stake"
              /\ txs[2].to = Target
              /\ txs[1].receipt = "ok"
        /\ (pc = "done" /\ exit_code = 0) =>
              /\ Len(txs) = 2
              /\ txs[1].receipt = "ok"
              /\ txs[2].receipt = "ok"

\* Both transactions were sent and the process has exited 0.
C2_Witness ==
    /\ C2_Pre
    /\ pc = "done"
    /\ exit_code = 0
    /\ Len(txs) = 2
    /\ serviceStakingState[Target] = STAKED

\* C3: With the service staked on a program other than the target, an
\* invocation hands over exactly one transaction, an unstake against that
\* program, and no approve or stake.  Stated for the stake-mode invocation
\* whose target is a real program with a free slot and rewards.
C3_OffTargetOnlyUnstakes ==
    \A y \in Contracts :
        ( /\ y # Target /\ startState[y] # UNSTAKED
          /\ ~ unstake
          /\ staking_program # NO_STAKING_PROGRAM_ID
          /\ StartSlots(Target) > 0
          /\ availableRewards[Target] > 0 ) =>
            /\ \A i \in DOMAIN txs :
                  txs[i].kind = "unstake" /\ txs[i].contract = y
            /\ pc = "done" => Len(txs) = 1

\* C4: With the service staked, not evicted, on the target and no rewards
\* available there, an invocation hands over exactly one transaction, an
\* unstake against the target.  Stated for the stake-mode invocation whose
\* target is a real program.
C4_NoRewardsUnstakes ==
    ( /\ ~ unstake
      /\ staking_program # NO_STAKING_PROGRAM_ID
      /\ startState[Target] = STAKED
      /\ availableRewards[Target] = 0
      /\ pc = "done" ) =>
        /\ Len(txs) = 1
        /\ txs[1].kind = "unstake"
        /\ txs[1].contract = Target

\* C5: After a guard refusal no transaction is handed over in the rest of
\* the invocation, and a refused unstake has handed over none at all.
C5_NoTxAfterGuardFailure ==
    /\ [][ (reported \in GuardRefusals /\ Len(history') = Len(history))
              => txs' = txs ]_vars
    /\ [](reported = "cannot_unstake" => txs = <<>>)

\* An unstake was refused because the minimum duration has not elapsed
\* while rewards are available, and the process has ended.
C5_Witness ==
    /\ reported = "cannot_unstake"
    /\ pc = "done"
    /\ (now - tsStart) < minStakingDuration[Target]
    /\ availableRewards[Target] > 0

C7_SentinelNoOp ==
    ( /\ staking_program = NO_STAKING_PROGRAM_ID /\ UnstakedAtStart
      /\ ~ unstake
      /\ StartSlots(Target) > 0
      /\ availableRewards[Target] > 0 ) =>
        /\ txs = <<>>
        /\ pc = "done" => exit_code = 0

\* C8: An invocation that follows one which exited 0 with every
\* transaction successful hands over no transaction.
RunTxs(k) == IF k <= Len(history) THEN history[k].txs ELSE txs

CompletedSuccessfully(r) ==
    /\ r.exit_code = 0
    /\ \A i \in DOMAIN r.txs : r.txs[i].receipt = "ok"

C8_SecondRunNoOp ==
    \A k \in DOMAIN history :
        CompletedSuccessfully(history[k]) => RunTxs(k + 1) = <<>>

\* The first invocation staked the service with two successful
\* transactions and the second one has ended.
C8_Witness ==
    /\ Len(history) = 1
    /\ CompletedSuccessfully(history[1])
    /\ Len(history[1].txs) = 2
    /\ pc = "done"

\* C9: With the service staked, not evicted, on the target and rewards
\* available, a stake-mode invocation hands over no transaction, leaves the
\* service staked on the target and exits 0.
C9_Pre ==
    /\ ~ unstake
    /\ startState[Target] = STAKED
    /\ availableRewards[Target] > 0

C9_StakedWithRewardsNoOp ==
    C9_Pre =>
        /\ txs = <<>>
        /\ serviceStakingState[Target] = STAKED
        /\ pc = "done" => exit_code = 0

\* The invocation has ended from a service staked on the target with
\* rewards available.
C9_Witness ==
    /\ C9_Pre
    /\ pc = "done"
    /\ history = <<>>

\* C10: A failed transaction is the last one of its invocation: every
\* transaction that is followed by another one has a successful receipt, no
\* transaction is sent after a failure, and an approval whose stake failed
\* is left in place.
C10_FailureAbortsPlan ==
    /\ \A i \in DOMAIN txs : i < Len(txs) => txs[i].receipt = "ok"
    /\ (txs # <<>> /\ Failed(txs[Len(txs)])) => pc \in {"except", "done"}
    /\ \A i \in DOMAIN txs :
          ( /\ i > 1
            /\ txs[i].kind = "stake" /\ Failed(txs[i])
            /\ txs[i - 1].kind = "approve" )
          => approved = txs[i - 1].contract

\* The approve succeeded, the stake failed and the process has ended.
C10_Witness ==
    /\ Len(txs) = 2
    /\ txs[1].kind = "approve" /\ txs[1].receipt = "ok"
    /\ txs[2].kind = "stake" /\ Failed(txs[2])
    /\ pc = "done"
    /\ approved = Target

\* ---------------------------------------------------------------- C11..C20

Unstaked(c) == \E i \in DOMAIN txs : txs[i].kind = "unstake" /\ txs[i].contract = c

GuardPasses(c) ==
    _check_unstaking_availability(now, tsStart, minStakingDuration[c],
                                  availableRewards[c])

RECURSIVE FirstPositive(_)
FirstPositive(programs) ==
    IF programs = <<>> THEN "None"
    ELSE IF is_service_staked(StakingStateAt(Head(programs).address))
         THEN Head(programs).key
         ELSE FirstPositive(Tail(programs))

\* C12: Once the discovery of _try_unstake_service is over, the program it
\* has chosen is the first one, in the iteration order of the catalog
\* without the sentinel and the excluded old program, whose contract
\* reports the service staked.
C12_DiscoveryChoosesFirstPositive ==
    unstake_program # "unset" =>
        unstake_program = FirstPositive(all_staking_programs)

\* C18: When a service staked and not evicted goes to the unstake routine,
\* the unstake guard passes and now < next checkpoint: in attended mode the
\* unstake is handed over only after the operator was asked to confirm, in
\* unattended mode no input is waited on and the invocation does not end
\* without the unstake.
C18_Pre(c) ==
    /\ history = <<>>
    /\ startState[c] = STAKED
    /\ unstake \/ (c = Target /\ availableRewards[c] = 0)
    /\ GuardPasses(c) \/ serviceStakingState[c] = UNSTAKED
    /\ now < nextCheckpointTs

C18_CheckpointConfirmation ==
    \A c \in Contracts : C18_Pre(c) =>
        /\ attended => (Unstaked(c) => "continue_unstaking" \in prompted)
        /\ ~ attended => /\ prompted = {}
                         /\ pc = "done" => Unstaked(c)

\* C19: When the service is evicted and the unstake guard passes, the
\* invocation waits on no input, neither after the eviction warning nor
\* for the checkpoint, and does not end without having handed over the
\* unstake, in unstake mode and in stake mode.
C19_Pre(c) ==
    /\ history = <<>>
    /\ startState[c] = EVICTED
    /\ unstake \/ c = Target
    /\ GuardPasses(c) \/ serviceStakingState[c] = UNSTAKED

C19_EvictedUnstakesUnprompted ==
    \A c \in Contracts : C19_Pre(c) =>
        /\ prompted = {}
        /\ pc = "done" => Unstaked(c)

Ended == send_tx_pc \in {"returned", "raised"}

\* An error that is retried as it is: should_retry holds, the transaction
\* is not already known and no repricing is asked for.
Retryable(e) ==
    /\ e \in Errors \ {RequestsConnectionError}
    /\ should_retry(e)
    /\ ~ _already_known(e)
    /\ ~ should_reprice(e)

C14_AlreadyKnownOnlyPolls ==
    \A j \in DOMAIN attempts : \A i \in DOMAIN attempts :
        ( /\ j < i
          /\ attempts[j].raised_by = "send"
          /\ _already_known(attempts[j].error) )
        => /\ ~ attempts[i].signed
           /\ attempts[i].polled =>
                 attempts[i].polled_digest = Digest(attempts[j].sent)

C17_TransientErrorsRetried ==
    [][ ( /\ send_tx_pc = "except"
          /\ (error = RequestsConnectionError \/ Retryable(error)) )
        => /\ send_tx_pc' = "while"
           /\ timestamp' = timestamp + sleep
           /\ result' = "none" ]_vars

\* C17: A retryable error is followed by a sleep of sleep seconds and the
\* next iteration, the iterations never exceed max_retries, and the caller
\* gets ChainTimeoutError only with the retries used up or the deadline
\* passed; a connection error is raised to the caller at once as RPCError.
C17_RetryableErrorsRetried ==
    /\ [][ (send_tx_pc = "except" /\ Retryable(error))
           => /\ send_tx_pc' = "while"
              /\ timestamp' = timestamp + sleep
              /\ result' = "none" ]_vars
    /\ [][ (send_tx_pc = "except" /\ error = RequestsConnectionError)
           => /\ send_tx_pc' = "raised"
              /\ result' = "RPCError" ]_vars
    /\ [] ( /\ retries <= max_retries
            /\ result = "ChainTimeoutError" =>
                  (retries = max_retries \/ timestamp > deadline) )

\* The first iteration failed with a retryable error and was followed by
\* the sleep, the second one with a connection error, which ended the call.
C17_Witness ==
    /\ Len(attempts) = 2
    /\ Retryable(attempts[1].error) /\ attempts[1].slept
    /\ attempts[2].error = RequestsConnectionError
    /\ result = "RPCError"

\* C16 as stated: a mined transaction of stake, unstake or claim whose
\* receipt status is not success ends the process with a non-zero exit
\* code and nothing goes on as after a success.
C16_FailedReceiptIsFatal ==
    /\ \A i \in DOMAIN txs : txs[i].receipt = "reverted" =>
          /\ pc \in {"except", "done"}
          /\ pc = "done" => exit_code # 0
    /\ claim_receipt = "status_0" =>
          /\ claim_printed # "claimed"
          /\ claim_pc = "done" => claim_exit_code # 0

\* C16: A mined stake or unstake transaction whose receipt status is not
\* success ends the invocation through the handler with a non-zero exit
\* code and no further transaction; a claim transaction with receipt status
\* 0 is answered with a warning only, and the process ends with exit code 0.
C16_FailedReceiptFatalButClaim ==
    /\ \A i \in DOMAIN txs : txs[i].receipt = "reverted" =>
          /\ pc \in {"except", "done"}
          /\ i = Len(txs)
          /\ pc = "done" => exit_code = 1
    /\ (claim_receipt = "status_0" /\ claim_pc = "done") =>
          /\ claim_printed = "warning"
          /\ claim_exit_code = 0

\* The claim transaction was mined with status 0 and the process has ended.
C16_Witness ==
    /\ claim_receipt = "status_0"
    /\ claim_pc = "done"

Missing ==
    {id \in DOMAIN mech_events_data.events :
        ipfs_contents(Persisted, id) # mech_events_data.events[id]}

LastBuilt ==
    IF position > 1 /\ position - 1 <= Len(subgraph_data)
    THEN {subgraph_data[position - 1]} ELSE {}

\* C21: during a sync the progress is on disk after every processed event,
\* not only at the end: between two iterations of the loop every event of
\* the document in memory is in the file, and while the file is being
\* written at most the event built last is not, so that an interruption
\* loses at most the event in flight.
C21_ProgressPersistedEveryChunk ==
    /\ mech_pc = "for" => Missing = {}
    /\ mech_pc \in {"dump", "dump_forced"} => Missing \subseteq LastBuilt

\* C22: an operator interruption during a sync is caught and reported as a
\* warning and the process does not crash; the events of the cache are
\* still returned; the sync that follows reads what was last persisted
\* (its read of the file does not fail) and, when it runs to its end, every
\* event of the sender that its query returned is in the store.
C22_InterruptionIsNotFatal ==
    /\ mech_pc # "crashed"
    /\ (mech_pc = "done" /\ mech_error = "KeyboardInterrupt")
          => (mech_warned /\ mech_returned = Persisted)
    /\ mech_error # "JSONDecodeError"
    /\ (mech_pc = "done" /\ mech_error = "none")
          => \A i \in DOMAIN subgraph_data :
                 subgraph_data[i] \in DOMAIN Persisted

\* C29: with two processes syncing against the same cache file, every
\* write puts the writer's own document in the file whatever the file held
\* (no lock, no merge), and a lost update is reachable: an event that one
\* process has persisted is no longer in the file after the other process
\* has written.
C29_WholesaleOverwrite ==
    [][(file' # file /\ file'.exists /\ ~ file'.torn)
          => file'.doc = mech_events_data]_vars

C29_Witness ==
    /\ mech_pc = "done"
    /\ mech_parked.mech_pc = "done"
    /\ ~ mech_parked.mech_warned
    /\ file.exists /\ ~ file.torn
    /\ \E id \in DOMAIN mech_parked.mech_events_data.events :
          id \notin DOMAIN Persisted

\* C30: with two invocations for the same signer, each call of send_tx
\* takes as nonce the transaction count it reads when it starts, whatever
\* the other call holds, and keeps it for all its submissions; a nonce
\* race is reachable: both calls have signed and sent different
\* transactions with the same nonce.
C30_NoncePerCallUncoordinated ==
    [][/\ (send_tx_pc = "call" /\ send_tx_pc' = "while")
             => tx_dict'.nonce = transaction_count
       /\ send_tx_pc \notin {"call", "idle"}
             => tx_dict'.nonce = tx_dict.nonce
       /\ (peer.pc = "call" /\ peer'.pc = "sign")
             => peer'.tx_dict.nonce = transaction_count
       /\ peer.pc \notin {"call", "idle"}
             => peer'.tx_dict.nonce = peer.tx_dict.nonce]_vars

C30_Witness ==
    /\ peer.pc = "sent"
    /\ send_tx_pc = "poll"
    /\ attempts # <<>>
    /\ attempts[Len(attempts)].signed
    /\ tx_digest # None
    /\ attempts[Len(attempts)].sent.nonce = peer.tx_dict.nonce
    /\ raw_tx # peer.raw_tx

\* C23: for every program id and every outcome of the contract read and of
\* the gateway fetch, what the metadata lookup returns is a mapping with a
\* name and a description, so that the listing of the programs reads both
\* keys without a KeyError or TypeError; for the no-staking sentinel the
\* lookup returns the fixed constant.
C23_MetadataAlwaysListable ==
    /\ select_result \notin {"KeyError", "TypeError"}
    /\ metadata # NoMetadata
          => /\ metadata.body = "mapping"
             /\ metadata.name # "missing"
             /\ metadata.description # "missing"
    /\ (select_pc \in {"for", "input"} /\ index > 1
           /\ ids[index - 1] = NO_STAKING_PROGRAM_ID)
          => metadata = NO_STAKING_PROGRAM_METADATA

\* C24: a key decryption or key format error ends the process with a
\* non-zero exit code and a message of its own before any call to the
\* chain, read or write, has been made.
C24_KeyErrorBeforeChain ==
    claim_printed \in {KeyErrorMessage("DecryptError"),
                       KeyErrorMessage("KeyIsIncorrect")}
       => /\ claim_exit_code = 1
          /\ claim_chain_calls = <<>>

\* What a column of the finished table shows as the sum put in.
PutIn(col) ==
    statistics_table["INVESTMENT"][col] + statistics_table["FEES"][col]
        + statistics_table["MECH_FEES"][col]

\* C26: in every column of the finished table ROI is
\* (EARNINGS - INVESTMENT - FEES - MECH_FEES) / (INVESTMENT + FEES + MECH_FEES)
\* for the values of the column, and it is exactly 0.0, with no division
\* error, when INVESTMENT + FEES + MECH_FEES is 0.
C26_RoiOfEveryColumn ==
    table_pc = "done" =>
        \A col \in STATS_TABLE_COLS :
            /\ statistics_roi[col] # ZeroDivisionError
            /\ statistics_roi[col] =
                  IF PutIn(col) = 0 THEN ZeroFloat
                  ELSE TrueDiv(statistics_table["EARNINGS"][col] - PutIn(col),
                               PutIn(col))

\* A finished table with a column that earned with nothing put in (ROI 0.0)
\* and a column whose ROI is a loss.
C26_Witness ==
    /\ table_pc = "done"
    /\ \E col \in MarketState :
          /\ PutIn(col) = 0
          /\ statistics_table["EARNINGS"][col] > 0
          /\ statistics_roi[col] = ZeroFloat
    /\ \E col \in STATS_TABLE_COLS :
          /\ PutIn(col) > 0
          /\ statistics_roi[col].num < 0

\* C27: the step that computes the totals leaves, in every column (each
\* market state and TOTAL), NET_EARNINGS = EARNINGS - INVESTMENT - FEES -
\* MECH_FEES for the values the column then shows, and has taken the fees
\* off the investment of the column one time: the investment shown is the
\* collateral accumulated for the column less the fees of the column.
C27_NetEarningsOncePerColumn ==
    [][table_pc = "for" /\ table_pc' = "done" =>
          \A col \in STATS_TABLE_COLS :
              /\ statistics_table'["NET_EARNINGS"][col] =
                    statistics_table'["EARNINGS"][col]
                       - statistics_table'["INVESTMENT"][col]
                       - statistics_table'["FEES"][col]
                       - statistics_table'["MECH_FEES"][col]
              /\ statistics_table'["INVESTMENT"][col] =
                    (IF col = "TOTAL"
                     THEN Sum(statistics_table["INVESTMENT"], MarketState)
                     ELSE statistics_table["INVESTMENT"][col])
                       - statistics_table'["FEES"][col]
              /\ statistics_table'["FEES"][col] =
                    IF col = "TOTAL"
                    THEN Sum(statistics_table["FEES"], MarketState)
                    ELSE statistics_table["FEES"][col]]_vars

\* A finished table with fees in two columns, and Mech calls for a market
\* that was not traded in the TOTAL column.
C27_Witness ==
    /\ table_pc = "done"
    /\ \E c1, c2 \in MarketState :
          /\ c1 # c2
          /\ statistics_table["FEES"][c1] > 0
          /\ statistics_table["FEES"][c2] > 0
          /\ statistics_table["NET_EARNINGS"][c1] # 0
    /\ statistics_table["MECH_FEES"]["TOTAL"]
          > Sum(statistics_table["MECH_FEES"], MarketState)
    /\ statistics_table["NET_EARNINGS"]["TOTAL"]
          # Sum(statistics_table["NET_EARNINGS"], MarketState)

C31_UnstakeModeEndsInRoutine ==
    unstake =>
        /\ \A i \in DOMAIN txs : txs[i].kind = "unstake"
        /\ pc = "done" =>
              \/ exit_code = 0
              \/ exit_code = 1 /\ reported \in {"cannot_unstake", "user_refused"}

\* The stake-mode invocation found the service evicted on the target and
\* the unstake guard has passed.
EvictedGuardPassed ==
    /\ ~ unstake
    /\ startState[Target] = EVICTED
    /\ pc \notin {"start", "is_staked"}
    /\ can_unstake

C33_KeyRemovedExactlyOnError ==
    [][ /\ pc = "except" => (~ use_staking_key' /\ exit_code' = 1)
        /\ pc # "except" => use_staking_key' = use_staking_key ]_vars

\* The approve succeeded, the stake failed, and the handler has removed the
\* key and ended the process with exit code 1.
C33_Witness ==
    /\ history = <<>>
    /\ pc = "done"
    /\ exit_code = 1
    /\ ~ use_staking_key
    /\ Len(txs) = 2
    /\ txs[1].receipt = "ok"
    /\ Failed(txs[2])

\* C34: within one call of send_tx a transaction that was broadcast with
\* success is not signed and sent again with the same gas parameters: the
\* iterations after it only poll for the receipt.
C34_BroadcastOncePerGasParams ==
    \A i, j \in DOMAIN attempts :
        ( /\ i < j
          /\ attempts[i].signed /\ attempts[i].raised_by # "send"
          /\ attempts[j].signed )
        => attempts[j].sent # attempts[i].sent

\* C35: every transaction signed within one call of send_tx carries the
\* nonce that the call read when it started, whatever was retried and
\* repriced, and the call gets at most one transaction of the signer mined:
\* the transaction count is the nonce of the call, or one more.
C35_OneNoncePerCall ==
    send_tx_pc # "call" =>
        /\ \A i \in DOMAIN attempts :
              attempts[i].signed => attempts[i].sent.nonce = tx_dict.nonce
        /\ transaction_count \in {tx_dict.nonce, tx_dict.nonce + 1}

\* The call signed twice, the second time after a repricing, and returned
\* the receipt of the one transaction that was mined.
C35_Witness ==
    /\ send_tx_pc = "returned"
    /\ Len(attempts) >= 2
    /\ attempts[1].signed /\ attempts[2].signed
    /\ attempts[1].sent.gas # attempts[2].sent.gas
    /\ transaction_count = tx_dict.nonce + 1

\* C36: the cache file can be parsed whenever the process is not in the
\* middle of writing it: no interruption of a sync, at whatever point,
\* leaves an empty or truncated file behind.
C36_FileAlwaysParseable ==
    mech_pc \notin {"dump", "dump_forced"} => ~ file.torn

\* C39: a read that finds a file of a lower db_version moves it aside with
\* its contents, leaves no cache file, and goes on from the empty store of
\* the current db_version, with none of the old events in it; a read that
\* finds no file goes on from the same empty store; and a file that was
\* moved aside is never removed.
C39_OldVersionMovedAside ==
    [][ /\ ( /\ mech_pc = "read" /\ mech_pc' = "for"
              /\ file.exists /\ ~ file.torn
              /\ file.doc.db_version < MECH_EVENTS_DB_VERSION )
            => /\ old_files' = Append(old_files, file.doc)
               /\ ~ file'.exists
               /\ mech_events_data' =
                     [db_version |-> MECH_EVENTS_DB_VERSION, events |-> NoEvents]
        /\ (mech_pc = "read" /\ mech_pc' = "for" /\ ~ file.exists)
            => /\ mech_events_data' =
                     [db_version |-> MECH_EVENTS_DB_VERSION, events |-> NoEvents]
               /\ UNCHANGED <<file, old_files>>
        /\ \A i \in DOMAIN old_files :
               i \in DOMAIN old_files' /\ old_files'[i] = old_files[i] ]_vars

\* A sync that found a file of the older version with an event in it has
\* ended: the old document is kept aside, and the new file has the current
\* db_version and not the old event, which the subgraph does not return.
C39_Witness ==
    /\ mech_pc = "done"
    /\ mech_error = "none"
    /\ Len(old_files) = 1
    /\ 1 \in DOMAIN old_files[1].events
    /\ file.exists /\ ~ file.torn
    /\ file.doc.db_version = MECH_EVENTS_DB_VERSION
    /\ 1 \notin DOMAIN file.doc.events

\* C40: the Mech calls and fees of a market are in the per-state cells once,
\* however many trades the market has: the cells of the MECH_CALLS and of
\* the MECH_FEES row add up to the calls and fees of the markets traded so
\* far.  Once the totals are computed, the TOTAL cell of each of the two
\* rows is the sum over all the Mech statistics, the markets never traded
\* among them, and so at least the sum of the per-state cells of the row.
C40_MechCountedOnce ==
    /\ Sum(statistics_table["MECH_CALLS"], MarketState) =
           Sum([t \in Titles |-> mech_statistics[t].count], popped)
    /\ Sum(statistics_table["MECH_FEES"], MarketState) =
           Sum([t \in Titles |-> mech_statistics[t].fees], popped)
    /\ table_pc = "done" =>
           /\ statistics_table["MECH_CALLS"]["TOTAL"] =
                  Sum([t \in Titles |-> mech_statistics[t].count], Titles)
           /\ statistics_table["MECH_FEES"]["TOTAL"] =
                  Sum([t \in Titles |-> mech_statistics[t].fees], Titles)
           /\ statistics_table["MECH_CALLS"]["TOTAL"] >=
                  Sum(statistics_table["MECH_CALLS"], MarketState)
           /\ statistics_table["MECH_FEES"]["TOTAL"] >=
                  Sum(statistics_table["MECH_FEES"], MarketState)

\* Two trades of one market with a Mech call, in two different market
\* states, and a Mech call for a market never traded: one call in the
\* per-state cells, two in TOTAL.
C40_Witness ==
    /\ table_pc = "done"
    /\ Parsed = 2
    /\ \E a, b \in MarketState :
           /\ a # b
           /\ statistics_table["NUM_TRADES"][a] = 1
           /\ statistics_table["NUM_TRADES"][b] = 1
    /\ \A t \in Titles : mech_statistics[t].count = 1
    /\ Sum(statistics_table["MECH_CALLS"], MarketState) = 1
    /\ statistics_table["MECH_CALLS"]["TOTAL"] = 2
    /\ statistics_table["MECH_FEES"]["TOTAL"] = 2 * DEFAULT_MECH_FEE

\* The stored STAKING_PROGRAM is discarded: there is none, or it is no key
\* of the active catalog.
StoredDiscarded ==
    \/ env_file_vars = "absent"
    \/ ~ InCatalog(STAKING_PROGRAMS, env_file_vars)

\* C37: the selection only returns keys of the active catalog.  A stored
\* program that is unknown or deprecated is discarded; then, with
\* ATTENDED=false, the no-staking sentinel is returned and nothing is listed
\* or asked, and otherwise every answer before the last is out of range,
\* the last is a number within range, and its program is returned.
C37_ReturnsActiveKey ==
    select_pc = "done" =>
        /\ InCatalog(STAKING_PROGRAMS, select_result)
        /\ (StoredDiscarded /\ ATTENDED = "false")
              => /\ select_result = NO_STAKING_PROGRAM_ID
                 /\ inputs = <<>>
                 /\ listed = <<>>
        /\ (StoredDiscarded /\ ATTENDED # "false")
              => /\ inputs # <<>>
                 /\ \A i \in 1 .. Len(inputs) - 1 :
                        ~ ( /\ ParseInt(inputs[i]) >= 1
                            /\ ParseInt(inputs[i]) <= Len(STAKING_PROGRAMS) )
                 /\ ParseInt(inputs[Len(inputs)]) \in 1 .. Len(STAKING_PROGRAMS)
                 /\ select_result =
                        STAKING_PROGRAMS[ParseInt(inputs[Len(inputs)])].key

\* A deprecated program is stored, the operator is asked, answers out of
\* range first and then picks the second program of the list.
C37_Witness ==
    /\ select_pc = "done"
    /\ InCatalog(DEPRECATED_STAKING_PROGRAMS, env_file_vars)
    /\ ATTENDED = "true"
    /\ inputs = <<"3", "2">>
    /\ select_result = STAKING_PROGRAMS[2].key

\* ==================================================== trades.py, the query
\* _query_omen_xdai_subgraph asks the subgraph for the trades of the creator
\* page by page.  A trade is its id, its creationTimestamp and the market
\* (fpmm) it belongs to; the trades that match the filters of the query are
\* fpmmTrades, in the order of the query (creationTimestamp, ascending).

Fpmms == {"fpmm_1", "fpmm_2"}

RECURSIVE SelectTrades(_, _)
\* The trades of the sequence with a creationTimestamp above the cursor
\* (line 92 of the query, creationTimestamp_gt).
SelectTrades(trades, cursor) ==
    IF trades = <<>> THEN <<>>
    ELSE IF Head(trades).creationTimestamp > cursor
    THEN <<Head(trades)>> \o SelectTrades(Tail(trades), cursor)
    ELSE SelectTrades(Tail(trades), cursor)

\* The answer to one request (lines 78-97, 340-353): the first
\* QUERY_BATCH_SIZE matching trades above the cursor.
Page(cursor) ==
    LET rest == SelectTrades(fpmmTrades, cursor)
    IN  SubSeq(rest, 1, IF Len(rest) < QUERY_BATCH_SIZE
                        THEN Len(rest) ELSE QUERY_BATCH_SIZE)

\* Lines 358-360: grouped_results[fpmm_id].append(trade) on a defaultdict,
\* whose groups are kept in the order in which the markets first appear.
GroupAppend(groups, trade) ==
    IF \E g \in DOMAIN groups : groups[g].fpmm = trade.fpmm
    THEN [g \in DOMAIN groups |->
             IF groups[g].fpmm = trade.fpmm
             THEN [groups[g] EXCEPT !.trades = Append(@, trade)]
             ELSE groups[g]]
    ELSE Append(groups, [fpmm |-> trade.fpmm, trades |-> <<trade>>])

RECURSIVE GroupAll(_, _)
GroupAll(groups, trades) ==
    IF trades = <<>> THEN groups
    ELSE GroupAll(GroupAppend(groups, Head(trades)), Tail(trades))

RECURSIVE Flatten(_)
\* Lines 364-372: the trades of all the groups, group after group.
Flatten(groups) ==
    IF groups = <<>> THEN <<>>
    ELSE Head(groups).trades \o Flatten(Tail(groups))

\* One pass of the loop of lines 339-362 with a page that is not empty: its
\* trades are grouped and the cursor becomes the creationTimestamp of the
\* last trade of the page.
_query_omen_xdai_subgraph ==
    /\ query_pc = "while"
    /\ LET trades == Page(creationTimestamp_gt)
       IN  /\ trades # <<>>
           /\ grouped_results' = GroupAll(grouped_results, trades)
           /\ creationTimestamp_gt' = trades[Len(trades)].creationTimestamp
    /\ UNCHANGED <<query_pc, fpmmTrades, all_results>>
    /\ UNCHANGED <<staking_vars, send_tx_vars, claim_vars, mech_vars,
                   select_vars, table_vars, service_vars>>

\* Lines 355-356 and 364-374: an empty page ends the loop and the grouped
\* trades are returned.
_query_omen_xdai_subgraph_return ==
    /\ query_pc = "while"
    /\ Page(creationTimestamp_gt) = <<>>
    /\ all_results' = Flatten(grouped_results)
    /\ query_pc' = "done"
    /\ UNCHANGED <<fpmmTrades, creationTimestamp_gt, grouped_results>>
    /\ UNCHANGED <<staking_vars, send_tx_vars, claim_vars, mech_vars,
                   select_vars, table_vars, service_vars>>

\* The sequences of matching trades: ids 1, 2, ... in the order of the
\* query, creationTimestamps that never decrease, any market.
MatchingTrades ==
    UNION { { t \in [1 .. n -> [id : 1 .. MaxMatching,
                                creationTimestamp : 1 .. MaxTimestamp,
                                fpmm : Fpmms]] :
                /\ \A i \in 1 .. n : t[i].id = i
                /\ \A i \in 1 .. n - 1 :
                       t[i].creationTimestamp <= t[i + 1].creationTimestamp } :
            n \in 0 .. MaxMatching }

InitQuery ==
    /\ staking_idle
    /\ send_tx_idle
    /\ claim_idle
    /\ mech_idle
    /\ select_idle
    /\ table_idle
    /\ service_idle
    /\ query_pc = "while"
    /\ fpmmTrades \in MatchingTrades
    /\ creationTimestamp_gt = 0
    /\ grouped_results = <<>>
    /\ all_results = <<>>

NextQuery ==
    \/ _query_omen_xdai_subgraph
    \/ _query_omen_xdai_subgraph_return

SpecQuery == InitQuery /\ [][NextQuery]_vars

\* C38: the paged query ends, and what it returns is every matching trade
\* exactly once, also when trades on both sides of a page boundary have the
\* same creationTimestamp.
C38_EveryTradeExactlyOnce ==
    query_pc = "done" =>
        /\ Len(all_results) = Len(fpmmTrades)
        /\ \A i \in DOMAIN fpmmTrades :
               \E j \in DOMAIN all_results : all_results[j] = fpmmTrades[i]

====
